---- MODULE Spec2Model ----
(***************************************************************************)
(* Model of the idempotent command path of the subscription service:       *)
(*   main.py            middleware stack (authenticate_request outermost,  *)
(*                      then IdempotencyMiddleware, then the routers)      *)
(*   core/middleware.py IdempotencyMiddleware.__call__                     *)
(*   api/subscriptions.py  create_subscription, change_plan,               *)
(*                      cancel_subscription, resume_subscription           *)
(*   engine/engine.py   SubscriptionEngine                                 *)
(*   persistence/repo.py  IdempotencyRepo, SubscriptionRepo                *)
(*                                                                         *)
(* Each request is one task.  A task is split at its suspension points     *)
(* that touch the store (SELECT, flush, commit) or the payment gateway.    *)
(* The store is PostgreSQL at READ COMMITTED: a session sees committed     *)
(* rows and its own writes; an INSERT of a primary key another session     *)
(* has inserted but not committed waits for that session to end.           *)
(* idempotency_keys is one table, primary key (project_id, key): the       *)
(* route handler writes request_hash/status/response through the ORM, the  *)
(* middleware reads and writes status/headers/body with raw SQL.           *)
(* The payment gateway is a remote service: every call either returns or   *)
(* raises.                                                                 *)
(*                                                                         *)
(* and of the webhook reconciliation path:                                 *)
(*   api/stripe_webhooks.py  webhook, _infer_project_id_for_event,         *)
(*                      _project_from_invoice                              *)
(*   persistence/repo.py  EventRepo, InvoiceRepo,                          *)
(*                      SubscriptionRepo.update_from_stripe                *)
(*   payments/fake_provider.py, payments/stripe_provider.py                *)
(*                      verify_signature, retrieve_subscription,           *)
(*                      retrieve_customer                                  *)
(* Each webhook delivery is one task with one session; what it flushed is  *)
(* visible to others only after its commit, and is rolled back when the    *)
(* session closes without one.                                             *)
(***************************************************************************)
EXTENDS Integers, Sequences, FiniteSets, TLC

(* ---------------------------------------------------------------------- *)
(* Bounds                                                                  *)
(* ---------------------------------------------------------------------- *)
NReq == 2                      \* number of request tasks
NDlv == 2                      \* number of webhook deliveries
NCall == 2                     \* number of record_usage calls
MaxVersion == 3                \* highest id of a config version

Req == 1..NReq
Dlv == 1..NDlv
Call == 1..NCall

(* ---------------------------------------------------------------------- *)
(* Values                                                                  *)
(* ---------------------------------------------------------------------- *)
NoHeader == ""                 \* header absent (None) or empty: `not v`
Projects == {"T1"}
Keys == {"K1"}
AllProjects == Projects \cup {NoHeader}
AllKeys == Keys \cup {NoHeader}
TK == AllProjects \X AllKeys   \* (project_id, key)

SqlNull == [null |-> TRUE]     \* SQL NULL / Python None
NoRow == [kind |-> "none"]   \* no row under that primary key

S0 == 0                        \* id of the subscription present at start
SubIds == {S0} \cup Req        \* a row created by request r has id r

\* Subscription ids used as the path parameter of change-plan, cancel and
\* resume: the row present at start, and the row of the first request.
Targets == {S0, 1}

Ops == {"create", "change_plan", "cancel", "resume"}

\* Plans of the tenant's latest published config.
ConfigPlans == {"BASIC"}

\* Request bodies after pydantic parsing (api_models.py), defaults filled in.
CreateBodies ==
    { [planCode |-> "BASIC", checkout |-> "False", cancelAtPeriodEnd |-> TRUE],
      [planCode |-> "BASIC", checkout |-> "None",  cancelAtPeriodEnd |-> TRUE],
      [planCode |-> "NOPE",  checkout |-> "True",  cancelAtPeriodEnd |-> TRUE] }
ChangePlanBodies ==
    { [planCode |-> "BASIC", checkout |-> "True", cancelAtPeriodEnd |-> TRUE],
      [planCode |-> "NOPE",  checkout |-> "True", cancelAtPeriodEnd |-> TRUE] }
CancelBodies ==
    { [planCode |-> "", checkout |-> "True", cancelAtPeriodEnd |-> b] : b \in BOOLEAN }
ResumeBodies ==
    { [planCode |-> "", checkout |-> "True", cancelAtPeriodEnd |-> TRUE] }

BodiesFor(op) ==
    CASE op = "create"      -> CreateBodies
      [] op = "change_plan" -> ChangePlanBodies
      [] op = "cancel"      -> CancelBodies
      [] OTHER              -> ResumeBodies

NoReq == [op |-> "none"]

VARIABLES
    idem,       \* committed rows of idempotency_keys, by (project_id, key)
    subs,       \* committed rows of subscriptions, by id
    prov,       \* the provider's subscriptions, by provider subscription id
    createCalls,\* per (project_id, key): create_checkout_session /
                \*   create_subscription calls issued to the gateway
    mutateCalls,\* per (project_id, key): update_ / cancel_ / resume_subscription
                \*   calls issued to the gateway
    req,        \* per task: the request (op, headers, body, path parameter)
    pc,         \* per task: position in the request's code
    tx,         \* per task: the idempotency row flushed but not yet committed
    local,      \* per task: the gateway result held in a local variable
    resp,       \* per task: the response the client received
    prior,      \* per task: the committed idempotency row when it arrived
    hist        \* per task: what it did (engine invoked, a gateway call raised)

VARIABLES
    backend,    \* settings.PAYMENTS_BACKEND: which provider deps.py builds
    events,     \* committed rows of payment_events
    invoices,   \* committed rows of invoices, each with its invoice_lines
    dlv,        \* per delivery: raw payload, Stripe-Signature header, the
                \*   deliveries that had ended when it arrived, inferred tenant
    wpc,        \* per delivery: position in webhook()
    wtx,        \* per delivery: the payment_events row flushed, not committed
    wresp,      \* per delivery: the response the provider received
    whist       \* per delivery: what it did (passed validation, committed a
                \*   mirror mutation, a provider call raised)

VARIABLES
    usage,      \* committed rows of usage_records
    ucall,      \* per record_usage call: tenant, body, and the committed rows
                \*   with its dedupe key when it arrived
    upc,        \* per record_usage call: position in record_usage
    utx,        \* per record_usage call: the row flushed but not yet committed
    uresp       \* per record_usage call: the response the client received

VARIABLES
    config_versions, \* ids of the committed rows of config_versions of T1
    cfg_json    \* per task: the config version _load_config returned

hookVars == <<backend, events, invoices, dlv, wpc, wtx, wresp, whist>>

usageVars == <<usage, ucall, upc, utx, uresp>>

configVars == <<config_versions, cfg_json>>

vars == <<idem, subs, prov, createCalls, mutateCalls, req, pc, tx, local,
          resp, prior, hist, backend, events, invoices, dlv, wpc, wtx, wresp,
          whist, usage, ucall, upc, utx, uresp, config_versions, cfg_json>>

(* ---------------------------------------------------------------------- *)
(* HTTP values                                                             *)
(* ---------------------------------------------------------------------- *)
Http(n) == [code |-> n]              \* an integer HTTP status
Tag(s) == [tag |-> s]               \* the handler's status column value

JsonHeaders == [hdr |-> "application/json"]
EmptyHeaders == [hdr |-> "{}"]

\* A body is a JSON value and the separators it was rendered with.
Compact(v) == [json |-> v, sep |-> "compact"]   \* FastAPI / Starlette render
Spaced(v) == [json |-> v, sep |-> "default"]   \* json.dumps(v)
EmptyBody == [json |-> SqlNull, sep |-> "empty"]

NoResp == [kind |-> "none"]
Aborted == [kind |-> "aborted"]
Response(status, headers, body) ==
    [kind |-> "http", status |-> status, headers |-> headers, body |-> body]

Error(n, type) == Response(Http(n), JsonHeaders, Compact([type |-> type]))

IsServerError(r) == r.kind = "http" /\ r.status = Http(500)

(* ---------------------------------------------------------------------- *)
(* Request fingerprint                                                     *)
(* ---------------------------------------------------------------------- *)
\* sha256 over the sorted-key compact JSON of the parsed body.
_stable_request_hash(body) == <<"sha256", "canonical", body>>

\* sha256 over the raw request bytes.
MwRequestHash(body) == <<"sha256", "raw", body>>

(* ---------------------------------------------------------------------- *)
(* Rows                                                                    *)
(* ---------------------------------------------------------------------- *)
\* IdempotencyRepo.create_in_progress: the ORM row the handler inserts.
InProgressRow(hash) ==
    [kind |-> "row", request_hash |-> hash, status |-> Tag("in_progress"),
     response |-> SqlNull, headers |-> SqlNull, body |-> SqlNull]

\* IdempotencyRepo.mark_succeeded
mark_succeeded(row, payload) ==
    [row EXCEPT !.status = Tag("succeeded"), !.response = payload]

\* IdempotencyRepo.mark_failed
mark_failed(row, payload) ==
    [row EXCEPT !.status = Tag("failed"), !.response = payload]

\* The row IdempotencyMiddleware inserts after the downstream call.
MwRow(hash, r) ==
    [kind |-> "row", request_hash |-> hash, status |-> r.status,
     response |-> SqlNull, headers |-> r.headers, body |-> [stored |-> r.body.json]]

\* Subscription row as SubscriptionRepo.create writes it (engine.py 222-237).
\* Ids of the tenant's config versions: the latest published one
\* (ConfigRepo.get_latest) and the one before it.
LatestConfigVersion == 2
PreviousConfigVersion == 1

\* ConfigRepo.get_latest (repo.py 57-65): the newest row of the tenant;
\* ids are given in the order of created_at.
get_latest(versions) == CHOOSE v \in versions : \A w \in versions : w <= v

\* The row repo.create inserts (engine.py 220-238).  current_period stands
\* for the pair current_period_start / current_period_end, which are
\* always written together.
PendingSub(project, plan) ==
    [kind |-> "sub", project_id |-> project, plan_code |-> plan,
     status |-> "pending", stripe_subscription_id |-> SqlNull,
     cancel_at_period_end |-> FALSE, checkout_url |-> SqlNull,
     current_period |-> SqlNull, trial_end_at |-> SqlNull,
     config_version_id |-> LatestConfigVersion]

NoSub == [kind |-> "none"]

\* Epoch seconds -> timezone-aware datetime (engine.py _from_epoch,
\* stripe_webhooks.py 18-21); None stays None.
_utc_from_epoch(ts) == IF ts = SqlNull THEN SqlNull ELSE [utc |-> ts.epoch]

\* The provider's record of a subscription the engine created for
\* `project`: the metadata carries project_id (engine.py 258-266, 288-296),
\* the customer is the one ensure_customer returned.
ProvSub(status, cape, project) ==
    [kind |-> "sub", status |-> status, cancel_at_period_end |-> cape,
     project_id |-> project, customer |-> "cus_1",
     current_period |-> [epoch |-> 1], trial_end |-> SqlNull]

(* ---------------------------------------------------------------------- *)
(* DTOs                                                                    *)
(* ---------------------------------------------------------------------- *)
\* SubscriptionResponse built by the engine (engine.py 315-331, 424-441).
SubscriptionResponse(id, row, status) ==
    [id |-> [uuid |-> id], projectId |-> row.project_id,
     planCode |-> row.plan_code, status |-> status,
     stripeSubscriptionId |-> row.stripe_subscription_id,
     cancelAtPeriodEnd |-> row.cancel_at_period_end,
     checkoutUrl |-> row.checkout_url]

\* model_dump(mode="json"): the UUID becomes its string form.
model_dump(dto) == [dto EXCEPT !.id = [str |-> dto.id.uuid]]

\* SubscriptionResponse(**payload): the id string is parsed back to a UUID.
FromPayload(payload) == [payload EXCEPT !.id = [uuid |-> payload.id.str]]

\* What goes on the wire for a SubscriptionResponse with the given status.
DtoResponse(n, dto) == Response(Http(n), JsonHeaders, Compact(model_dump(dto)))

(* ---------------------------------------------------------------------- *)
(* Webhook deliveries                                                      *)
(* ---------------------------------------------------------------------- *)
Backends == {"fake", "stripe"}

NoValue == ""                  \* JSON key absent, null or empty: falsy

\* Provider subscription ids.  The row present at start is bound to P0; P1
\* is the subscription the provider opens when the checkout of row 1
\* completes; no local row is bound to PX.
P0 == S0
P1 == 1
PX == 2

\* metadata.subscription_local_id as the engine sends it (str(sub.id)),
\* for the pending row, for a row that does not exist, and a string that is
\* not a UUID.
LocalIdOfPending == [str |-> 1]
LocalIdUnknown == [str |-> 9]
LocalIdGarbage == [text |-> "not-a-uuid"]

\* A parsed event: id, type, whether data.object is a JSON object, and the
\* fields of data.object the handler reads (metadata.project_id,
\* metadata.subscription_local_id, subscription, id, customer, status,
\* cancel_at_period_end, current_period_*, trial_end, lines.data).  The
\* provider gives every event its own id, so the id is written as the
\* event's content.
Event(type, project, localId, subscription, objId, customer, status) ==
    [id |-> [evt |-> <<type, project, localId, subscription, objId, customer,
                       status>>],
     type |-> type, object |-> "dict", project |-> project,
     localId |-> localId, subscription |-> subscription, objId |-> objId,
     customer |-> customer, status |-> status,
     cancel_at_period_end |-> [bool |-> TRUE],
     current_period |-> [epoch |-> 3], trial_end |-> SqlNull,
     lines |-> <<"li_1">>]

CheckoutCompleted(project, localId, subscription) ==
    Event("checkout.session.completed", project, localId, subscription,
          [session |-> "cs_1"], NoValue, NoValue)

InvoicePaymentFailed(project, subscription, customer) ==
    Event("invoice.payment_failed", project, SqlNull, subscription,
          [inv |-> "in_1"], customer, "open")

SubscriptionUpdated(project, sid, status) ==
    Event("customer.subscription.updated", project, SqlNull, SqlNull,
          [id |-> sid], NoValue, status)

SubscriptionDeleted(project, sid) ==
    Event("customer.subscription.deleted", project, SqlNull, SqlNull,
          [id |-> sid], NoValue, "canceled")

\* The customer.subscription.updated event the provider emits when its
\* record of subscription sid has become p: the object is that record.
SnapshotEvent(project, sid, p) ==
    [SubscriptionUpdated(project, sid, p.status) EXCEPT
        !.cancel_at_period_end = [bool |-> p.cancel_at_period_end],
        !.current_period = p.current_period,
        !.trial_end = p.trial_end]

\* A later event of the provider that carries the same object as e: a
\* change that touches none of the fields the handler reads.  It has its
\* own event id.
SameObjectLater(e) == [e EXCEPT !.id = [evt |-> Append(e.id.evt, "later")]]

WellFormedEvents ==
    { CheckoutCompleted("T1", LocalIdOfPending, [id |-> P1]),
      CheckoutCompleted("T1", LocalIdGarbage, [id |-> P1]),
      CheckoutCompleted("T1", LocalIdUnknown, [id |-> P1]),
      CheckoutCompleted("T2", LocalIdOfPending, [id |-> P1]),
      CheckoutCompleted(NoValue, LocalIdOfPending, SqlNull),
      CheckoutCompleted(NoValue, LocalIdOfPending, [id |-> P1]),
      InvoicePaymentFailed("T1", [id |-> P0], NoValue),
      [Event("invoice.payment_succeeded", "T1", SqlNull, [id |-> P0],
             [inv |-> "in_1"], NoValue, "paid") EXCEPT !.lines = <<"li_2", "li_3">>],
      InvoicePaymentFailed(NoValue, SqlNull, NoValue),
      InvoicePaymentFailed(NoValue, SqlNull, "cus_1"),
      InvoicePaymentFailed(NoValue, [id |-> P0], "cus_2"),
      SubscriptionUpdated("T1", P0, "past_due"),
      SameObjectLater(SubscriptionUpdated("T1", P0, "past_due")),
      SnapshotEvent("T1", P0, ProvSub("active", FALSE, "T1")),
      [SubscriptionUpdated("T1", P0, "trialing") EXCEPT !.trial_end = [epoch |-> 5]],
      SubscriptionUpdated("T1", PX, "active"),
      SubscriptionDeleted("T1", P0),
      Event("customer.created", "T1", SqlNull, SqlNull, [id |-> PX],
            NoValue, NoValue) }

\* Events the shape guard is about: no id, no type, data.object missing,
\* data.object a JSON scalar.
IllFormedEvents ==
    { [SubscriptionUpdated("T1", P0, "past_due") EXCEPT !.id = SqlNull],
      [SubscriptionUpdated("T1", P0, "past_due") EXCEPT !.type = NoValue],
      [SubscriptionUpdated("T1", P0, "past_due") EXCEPT !.object = "absent"],
      [SubscriptionUpdated("T1", P0, "past_due") EXCEPT !.object = "scalar"] }

Unparsable == [garbage |-> TRUE]       \* a body that is not JSON

\* What the provider (or anyone else) can POST to /stripe/webhook: a raw
\* body and a Stripe-Signature header that is valid for the body, invalid,
\* or absent.
Deliveries ==
    { [payload |-> e, sig |-> "valid"] : e \in WellFormedEvents \cup IllFormedEvents }
    \cup { [payload |-> InvoicePaymentFailed("T1", [id |-> P0], NoValue), sig |-> s] :
              s \in {"invalid", NoHeader} }
    \cup { [payload |-> Unparsable, sig |-> "valid"] }

NoDelivery ==
    [payload |-> Unparsable, sig |-> NoHeader, after |-> {}, tenant |-> NoValue]

\* Webhook responses (stripe_webhooks.py 99, 178).
Deduped ==
    Response(Http(200), JsonHeaders, Compact([ok |-> TRUE, deduped |-> TRUE]))
Processed(type) ==
    Response(Http(200), JsonHeaders, Compact([ok |-> TRUE, type |-> type]))

\* PaymentEvent row (repo.py 218-225); the delivery that inserted it stands
\* for its uuid.
PaymentEvent(d, project, e) ==
    [rowid |-> d, provider |-> "stripe", event_id |-> e.id,
     project_id |-> project, event_type |-> e.type]

\* A usage row that is not there / a call that has not been made.
NoCall == [tenant |-> NoHeader]

\* No usage has been recorded and no record_usage call has been made.
UsageIdle ==
    /\ usage = {}
    /\ ucall = [c \in Call |-> NoCall]
    /\ upc = [c \in Call |-> "idle"]
    /\ utx = [c \in Call |-> NoRow]
    /\ uresp = [c \in Call |-> NoResp]

\* The tenant has published two config versions; no task has loaded one.
ConfigPublished ==
    /\ config_versions = {PreviousConfigVersion, LatestConfigVersion}
    /\ cfg_json = [r \in Req |-> SqlNull]

\* No webhook has been delivered; payment_events and invoices are empty.
HooksIdle ==
    /\ backend \in Backends
    /\ events = {}
    /\ invoices = {}
    /\ dlv = [d \in Dlv |-> NoDelivery]
    /\ wpc = [d \in Dlv |-> "idle"]
    /\ wtx = [d \in Dlv |-> NoRow]
    /\ wresp = [d \in Dlv |-> NoResp]
    /\ whist = [d \in Dlv |-> [validated |-> FALSE, mutated |-> FALSE,
                               fault |-> FALSE]]

(* ---------------------------------------------------------------------- *)
(* Initial state                                                           *)
(* ---------------------------------------------------------------------- *)
\* The store holds one bound, active subscription of T1 (created earlier by
\* a direct create, under the config version before the latest); no
\* idempotency rows; no request has arrived.
Init ==
    /\ idem = [k \in TK |-> NoRow]
    /\ subs = [s \in SubIds |->
                 IF s = S0
                 THEN [PendingSub("T1", "BASIC") EXCEPT !.status = "active",
                          !.stripe_subscription_id = [id |-> S0],
                          !.current_period = _utc_from_epoch([epoch |-> 1]),
                          !.config_version_id = PreviousConfigVersion]
                 ELSE NoSub]
    /\ prov = [s \in SubIds |->
                 IF s = S0 THEN ProvSub("active", FALSE, "T1") ELSE NoSub]
    /\ createCalls = [k \in TK |-> 0]
    /\ mutateCalls = [k \in TK |-> 0]
    /\ req = [r \in Req |-> NoReq]
    /\ pc = [r \in Req |-> "idle"]
    /\ tx = [r \in Req |-> NoRow]
    /\ local = [r \in Req |-> SqlNull]
    /\ resp = [r \in Req |-> NoResp]
    /\ prior = [r \in Req |-> NoRow]
    /\ hist = [r \in Req |-> [engine |-> FALSE, gatewayError |-> FALSE]]
    /\ HooksIdle
    /\ UsageIdle
    /\ ConfigPublished

KeyOf(r) == <<req[r].project, req[r].key>>

\* The task ends with the given response (nothing runs after it).
Finish(r, response) ==
    /\ resp' = [resp EXCEPT ![r] = response]
    /\ pc' = [pc EXCEPT ![r] = "done"]

\* The route returned `response`; control is back in the middleware.
Return(r, response) ==
    /\ resp' = [resp EXCEPT ![r] = response]
    /\ pc' = [pc EXCEPT ![r] = "mw_store"]

Goto(r, label) ==
    /\ pc' = [pc EXCEPT ![r] = label]
    /\ UNCHANGED resp

(* ---------------------------------------------------------------------- *)
(* main.py authenticate_request and IdempotencyMiddleware, inbound half    *)
(* ---------------------------------------------------------------------- *)
\* main.py 73-78: the outermost middleware requires X-Project-Id
\* (the bearer token is taken to be valid).
AuthMissingProject(project) == project = NoHeader

\* The check with the idempotency key forgotten.
MissingGateHeaders_ProjectOnly(key, project) == project = NoHeader

\* middleware.py 62: `if not idem_key or not project_id`
MissingGateHeaders(key, project) == key = NoHeader \/ project = NoHeader

\* A replay that acknowledges the key without the stored columns.
Replay_Acknowledge(row) == Response(Http(200), EmptyHeaders, EmptyBody)

\* middleware.py 94-116: replay of a stored row.  NULL headers load as {},
\* a NULL body is sent as the empty string, a stored JSON body is re-rendered
\* with json.dumps.  The request hash is not looked at.
Replay(row) ==
    Response(row.status,
             IF row.headers = SqlNull THEN EmptyHeaders ELSE row.headers,
             IF row.body = SqlNull THEN EmptyBody ELSE Spaced(row.body.stored))

\* A request arrives (POST on a non-exempt path) and runs up to the
\* middleware's SELECT: main.py 61-87, middleware.py 35-116.
\* Tasks are interchangeable, so they arrive in index order.
Arrive(r) ==
    /\ pc[r] = "idle"
    /\ r > 1 => pc[r - 1] # "idle"
    /\ \E op \in Ops, project \in AllProjects, key \in AllKeys :
       \E body \in BodiesFor(op), target \in (IF op = "create" THEN {S0} ELSE Targets) :
         LET row == idem[<<project, key>>] IN
         /\ req' = [req EXCEPT ![r] =
                       [op |-> op, project |-> project, key |-> key,
                        body |-> body, target |-> target]]
         /\ prior' = [prior EXCEPT ![r] = row]
         /\ IF AuthMissingProject(project)
              THEN Finish(r, Error(422, "missing_project_header"))
            ELSE IF MissingGateHeaders(key, project)
              THEN Finish(r, Error(422, "missing_gate_header"))
            ELSE IF row # NoRow
              THEN Finish(r, Replay(row))
            ELSE Goto(r, "app") /\ resp[r] = NoResp
    /\ UNCHANGED <<idem, subs, prov, createCalls, mutateCalls, tx, local, hist>>
    /\ UNCHANGED hookVars
    /\ UNCHANGED usageVars
    /\ UNCHANGED configVars

(* ---------------------------------------------------------------------- *)
(* api/subscriptions.py create_subscription                                *)
(* ---------------------------------------------------------------------- *)
\* Another session holds an uncommitted INSERT of the same primary key.
LockedByOther(r, k) == \E o \in Req \ {r} : tx[o] # NoRow /\ KeyOf(o) = k

\* subscriptions.py 32-48: header check, then the lookup of the record.
HGet(r) ==
    /\ pc[r] = "app" /\ req[r].op = "create"
    /\ LET existing == idem[KeyOf(r)] IN
       IF req[r].key = NoHeader
         THEN Return(r, Error(400, "missing_header"))
       ELSE IF existing # NoRow /\ existing.status = Tag("succeeded")
                  /\ existing.response # SqlNull
         THEN Return(r, DtoResponse(201, FromPayload(existing.response)))
       ELSE IF existing # NoRow /\ existing.status = Tag("in_progress")
         THEN Return(r, Error(409, "in_progress"))
       ELSE Goto(r, "h_insert")
    /\ UNCHANGED <<idem, subs, prov, createCalls, mutateCalls, req, tx, local,
                   prior, hist>>
    /\ UNCHANGED hookVars
    /\ UNCHANGED usageVars
    /\ UNCHANGED configVars

\* A table without the primary key: no INSERT is ever rejected.
PrimaryKeyConflict_NoConstraint(k) == FALSE

\* models.py 55-56: (project_id, key) is the primary key, so an INSERT
\* under a key that has a committed row is rejected.
PrimaryKeyConflict(k) == idem[k] # NoRow

\* subscriptions.py 50, repo.py 457-468: db.add + flush of the in_progress
\* row.  The INSERT fails on a committed row with that primary key (also the
\* failed row the session has just loaded); the exception is raised outside
\* the try block and leaves the application as a 500.
create_in_progress(r) ==
    /\ pc[r] = "h_insert"
    /\ ~LockedByOther(r, KeyOf(r))
    /\ IF PrimaryKeyConflict(KeyOf(r))
         THEN /\ Finish(r, Error(500, "internal"))
              /\ UNCHANGED tx
         ELSE /\ tx' = [tx EXCEPT ![r] =
                          InProgressRow(_stable_request_hash(req[r].body))]
              /\ Goto(r, "e_validate")
    /\ UNCHANGED <<idem, subs, prov, createCalls, mutateCalls, req, local,
                   prior, hist>>
    /\ UNCHANGED hookVars
    /\ UNCHANGED usageVars
    /\ UNCHANGED configVars

\* The row the handler holds: pending in its session, or committed.
HeldRow(r) == IF tx[r] # NoRow THEN tx[r] ELSE idem[KeyOf(r)]

\* subscriptions.py 59-67: mark_failed + commit.
FailAndCommit(r, type) ==
    /\ idem' = [idem EXCEPT ![KeyOf(r)] = mark_failed(HeldRow(r), [type |-> type])]
    /\ tx' = [tx EXCEPT ![r] = NoRow]

\* engine.py 182-218: _load_config (the latest config version), validation,
\* plan lookup, resolve_price_id, ensure_customer.  EngineError becomes a 400, any other exception is
\* re-raised; both mark the record failed and commit.
EValidate(r) ==
    /\ pc[r] = "e_validate"
    /\ \/ /\ req[r].body.planCode \notin ConfigPlans
          /\ hist' = [hist EXCEPT ![r].engine = TRUE]
          /\ FailAndCommit(r, "validation_error")
          /\ Return(r, Error(400, "validation_error"))
       \/ /\ req[r].body.planCode \in ConfigPlans
          /\ hist' = [hist EXCEPT ![r] = [engine |-> TRUE, gatewayError |-> TRUE]]
          /\ FailAndCommit(r, "error")
          /\ Finish(r, Error(500, "internal"))
       \/ /\ req[r].body.planCode \in ConfigPlans
          /\ hist' = [hist EXCEPT ![r].engine = TRUE]
          /\ Goto(r, "e_persist")
          /\ UNCHANGED <<idem, tx>>
    /\ cfg_json' = [cfg_json EXCEPT ![r] = get_latest(config_versions)]
    /\ UNCHANGED <<subs, prov, createCalls, mutateCalls, req, local, prior,
                   config_versions>>
    /\ UNCHANGED hookVars
    /\ UNCHANGED usageVars

\* engine.py 220-238: the pending Subscription row is created, with the id
\* of the config version a second get_latest returns (engine.py 227), and
\* the session is committed; the flushed in_progress record commits with it.
EPersist(r) ==
    /\ pc[r] = "e_persist"
    /\ subs' = [subs EXCEPT ![r] =
                  [PendingSub(req[r].project, req[r].body.planCode) EXCEPT
                      !.config_version_id = get_latest(config_versions)]]
    /\ idem' = [idem EXCEPT ![KeyOf(r)] = HeldRow(r)]
    /\ tx' = [tx EXCEPT ![r] = NoRow]
    /\ Goto(r, "e_call")
    /\ UNCHANGED <<prov, createCalls, mutateCalls, req, local, prior, hist>>
    /\ UNCHANGED hookVars
    /\ UNCHANGED usageVars
    /\ UNCHANGED configVars

\* engine.py 159-170
_decide_flow(request_checkout) ==
    IF request_checkout = "True" THEN "checkout"
    ELSE IF request_checkout = "False" THEN "direct"
    ELSE "checkout"

\* engine.py 246-302: create_checkout_session or create_subscription.
\* A raising call is caught in subscriptions.py 64-67.
ECall(r) ==
    /\ pc[r] = "e_call"
    /\ createCalls' = [createCalls EXCEPT ![KeyOf(r)] = @ + 1]
    /\ \/ /\ hist' = [hist EXCEPT ![r].gatewayError = TRUE]
          /\ FailAndCommit(r, "error")
          /\ Finish(r, Error(500, "internal"))
          /\ UNCHANGED <<prov, local>>
       \/ /\ _decide_flow(req[r].body.checkout) = "checkout"
          /\ local' = [local EXCEPT ![r] = [url |-> "checkout_url"]]
          /\ Goto(r, "e_update")
          /\ UNCHANGED <<idem, tx, prov, hist>>
       \/ /\ _decide_flow(req[r].body.checkout) = "direct"
          /\ prov' = [prov EXCEPT ![r] = ProvSub("active", FALSE, req[r].project)]
          /\ local' = [local EXCEPT ![r] =
                          [id |-> r, status |-> "active",
                           current_period |-> prov'[r].current_period]]
          /\ Goto(r, "e_update")
          /\ UNCHANGED <<idem, tx, hist>>
    /\ UNCHANGED <<subs, mutateCalls, req, prior>>
    /\ UNCHANGED hookVars
    /\ UNCHANGED usageVars
    /\ UNCHANGED configVars

\* engine.py 270-276 and 304-312: repo.update + commit.
EUpdate(r) ==
    /\ pc[r] = "e_update"
    /\ subs' = [subs EXCEPT ![r] =
                  IF _decide_flow(req[r].body.checkout) = "checkout"
                  THEN [@ EXCEPT !.checkout_url = local[r]]
                  ELSE [@ EXCEPT !.stripe_subscription_id = [id |-> local[r].id],
                                 !.status = local[r].status,
                                 !.current_period =
                                     _utc_from_epoch(local[r].current_period)]]
    /\ Goto(r, "h_finish")
    /\ UNCHANGED <<idem, prov, createCalls, mutateCalls, req, tx, local, prior,
                   hist>>
    /\ UNCHANGED hookVars
    /\ UNCHANGED usageVars
    /\ UNCHANGED configVars

\* engine.py 314-331 and subscriptions.py 55-57, 64-67.  In the checkout
\* flow the DTO reads the local trial_end_at, which only the direct branch
\* assigns: the UnboundLocalError is caught as Exception.  In the direct
\* flow the record is marked succeeded with the dumped DTO and committed.
HFinish(r) ==
    /\ pc[r] = "h_finish"
    /\ IF _decide_flow(req[r].body.checkout) = "checkout"
         THEN /\ FailAndCommit(r, "error")
              /\ Finish(r, Error(500, "internal"))
         ELSE LET dto == SubscriptionResponse(r, subs[r], local[r].status) IN
              /\ idem' = [idem EXCEPT ![KeyOf(r)] =
                            mark_succeeded(HeldRow(r), model_dump(dto))]
              /\ tx' = [tx EXCEPT ![r] = NoRow]
              /\ Return(r, DtoResponse(201, dto))
    /\ UNCHANGED <<subs, prov, createCalls, mutateCalls, req, local, prior,
                   hist>>
    /\ UNCHANGED hookVars
    /\ UNCHANGED usageVars
    /\ UNCHANGED configVars

\* The task is cancelled at a suspension point of the handler
\* (CancelledError is not an Exception, so neither except clause of
\* subscriptions.py 59-67 runs); closing the session (deps.py 21-23) rolls
\* back what it has not committed.  The client receives no response.
Abort(r) ==
    /\ pc[r] \in {"e_validate", "e_persist", "e_call", "e_update", "h_finish"}
    /\ tx' = [tx EXCEPT ![r] = NoRow]
    /\ Finish(r, Aborted)
    /\ UNCHANGED <<idem, subs, prov, createCalls, mutateCalls, req, local,
                   prior, hist>>
    /\ UNCHANGED hookVars
    /\ UNCHANGED usageVars
    /\ UNCHANGED configVars

(* ---------------------------------------------------------------------- *)
(* api/subscriptions.py change_plan, cancel_subscription,                  *)
(* resume_subscription and the engine operations behind them               *)
(* ---------------------------------------------------------------------- *)
\* A lookup that only checks that the row exists.
NotFound_ExistsOnly(sub, project) == sub = NoSub

\* subscriptions.py 76, 133-135, 155-157, 172-174: the tenant check.
NotFound(sub, project) == sub = NoSub \/ sub.project_id # project

\* GET /subscriptions/{id} (subscriptions.py 69-95), the whole request:
\* main.py 61-87 requires X-Project-Id, the idempotency middleware passes
\* a GET through (middleware.py 46-47), the route reads the row and
\* returns it or a 404.  A GET carries no body and needs no
\* Idempotency-Key.  Nothing is written.
get_subscription(r) ==
    /\ pc[r] = "idle"
    /\ r > 1 => pc[r - 1] # "idle"
    /\ \E project \in AllProjects, target \in Targets :
         LET sub == subs[target] IN
         /\ req' = [req EXCEPT ![r] =
                       [op |-> "get", project |-> project, key |-> NoHeader,
                        body |-> [nobody |-> TRUE], target |-> target]]
         /\ IF AuthMissingProject(project)
              THEN Finish(r, Error(422, "missing_project_header"))
            ELSE IF NotFound(sub, project)
              THEN Finish(r, Error(404, "not_found"))
            ELSE Finish(r, DtoResponse(200, SubscriptionResponse(target, sub, sub.status)))
    /\ UNCHANGED <<idem, subs, prov, createCalls, mutateCalls, tx, local,
                   prior, hist>>
    /\ UNCHANGED hookVars
    /\ UNCHANGED usageVars
    /\ UNCHANGED configVars

\* subscriptions.py 125-179 up to the gateway mutation: lookup of the row,
\* then engine.py 341-368 (change_plan), 392-393 (cancel), 409-410
\* (resume).  EngineError becomes a 400; a raising resolve_price_id is not
\* caught.
MGet(r) ==
    /\ pc[r] = "app" /\ req[r].op # "create"
    /\ LET sub == subs[req[r].target] IN
       IF NotFound(sub, req[r].project)
         THEN /\ Return(r, Error(404, "not_found"))
              /\ UNCHANGED <<local, hist>>
         ELSE /\ \/ /\ req[r].op = "change_plan"
                    /\ req[r].body.planCode \notin ConfigPlans
                    /\ hist' = [hist EXCEPT ![r].engine = TRUE]
                    /\ Return(r, Error(400, "validation_error"))
                    /\ UNCHANGED local
                 \/ /\ req[r].op = "change_plan"
                    /\ req[r].body.planCode \in ConfigPlans
                    /\ hist' = [hist EXCEPT ![r] = [engine |-> TRUE, gatewayError |-> TRUE]]
                    /\ Finish(r, Error(500, "internal"))
                    /\ UNCHANGED local
                 \/ /\ req[r].op = "change_plan" => req[r].body.planCode \in ConfigPlans
                    /\ sub.stripe_subscription_id = SqlNull
                    /\ hist' = [hist EXCEPT ![r].engine = TRUE]
                    /\ Return(r, Error(400, "validation_error"))
                    /\ UNCHANGED local
                 \/ /\ req[r].op = "change_plan" => req[r].body.planCode \in ConfigPlans
                    /\ sub.stripe_subscription_id # SqlNull
                    /\ hist' = [hist EXCEPT ![r].engine = TRUE]
                    /\ local' = [local EXCEPT ![r] = [sid |-> sub.stripe_subscription_id.id]]
                    /\ Goto(r, "m_call")
    /\ UNCHANGED <<idem, subs, prov, createCalls, mutateCalls, req, tx, prior>>
    /\ UNCHANGED hookVars
    /\ UNCHANGED usageVars
    /\ UNCHANGED configVars

\* fake_provider.py 149-201, stripe_provider.py 169-233: what the gateway
\* does to its subscription.  resume_subscription of the fake marks the
\* subscription active whatever it was; Stripe's only clears the flag.
ProviderMutate(op, body, p) ==
    CASE op = "change_plan" -> p
      [] op = "cancel" ->
            IF body.cancelAtPeriodEnd
            THEN [p EXCEPT !.cancel_at_period_end = TRUE]
            ELSE [p EXCEPT !.status = "canceled", !.cancel_at_period_end = FALSE]
      [] OTHER ->
            IF backend = "fake"
            THEN [p EXCEPT !.status = "active", !.cancel_at_period_end = FALSE]
            ELSE [p EXCEPT !.cancel_at_period_end = FALSE]

\* engine.py 370-375, 395-398, 412: update_subscription,
\* cancel_subscription or resume_subscription.  A raising call is not an
\* EngineError and leaves the application as a 500.
MCall(r) ==
    /\ pc[r] = "m_call"
    /\ mutateCalls' = [mutateCalls EXCEPT ![KeyOf(r)] = @ + 1]
    /\ \/ /\ hist' = [hist EXCEPT ![r].gatewayError = TRUE]
          /\ Finish(r, Error(500, "internal"))
          /\ UNCHANGED <<prov, local>>
       \/ LET sid == local[r].sid
              p == ProviderMutate(req[r].op, req[r].body, prov[sid]) IN
          /\ prov' = [prov EXCEPT ![sid] = p]
          /\ local' = [local EXCEPT ![r] =
                          [sid |-> sid, status |-> p.status,
                           cancel_at_period_end |-> p.cancel_at_period_end,
                           current_period |-> p.current_period]]
          /\ Goto(r, "m_update")
          /\ UNCHANGED hist
    /\ UNCHANGED <<idem, subs, createCalls, req, tx, prior>>
    /\ UNCHANGED hookVars
    /\ UNCHANGED usageVars
    /\ UNCHANGED configVars

\* A mirror write that marks the row canceled as soon as a cancel is issued.
MirrorSnapshot_CancelForcesStatus(op, body, row, snap) ==
    IF op = "cancel"
    THEN [row EXCEPT !.status = "canceled",
                     !.cancel_at_period_end = snap.cancel_at_period_end]
    ELSE [row EXCEPT !.status = snap.status,
                     !.cancel_at_period_end = snap.cancel_at_period_end]

\* engine.py 377-389, 399-406, 413-420: repo.update + commit + _dto.
MirrorSnapshot(op, body, row, snap) ==
    IF op = "change_plan"
    THEN [row EXCEPT !.plan_code = body.planCode, !.status = snap.status,
                     !.current_period = _utc_from_epoch(snap.current_period)]
    ELSE [row EXCEPT !.status = snap.status,
                     !.cancel_at_period_end = snap.cancel_at_period_end]

MUpdate(r) ==
    /\ pc[r] = "m_update"
    /\ LET row == MirrorSnapshot(req[r].op, req[r].body, subs[req[r].target], local[r]) IN
       /\ subs' = [subs EXCEPT ![req[r].target] = row]
       /\ Return(r, DtoResponse(200, SubscriptionResponse(req[r].target, row, row.status)))
    /\ UNCHANGED <<idem, prov, createCalls, mutateCalls, req, tx, local, prior,
                   hist>>
    /\ UNCHANGED hookVars
    /\ UNCHANGED usageVars
    /\ UNCHANGED configVars

(* ---------------------------------------------------------------------- *)
(* IdempotencyMiddleware, outbound half                                    *)
(* ---------------------------------------------------------------------- *)
\* middleware.py 152
Storable(response) == response.status.code < 500

\* middleware.py 151-179: INSERT ... ON CONFLICT (project_id, key) DO
\* NOTHING of the downstream response, best effort (a failing INSERT is
\* swallowed).
MwStore(r) ==
    /\ pc[r] = "mw_store"
    /\ ~LockedByOther(r, KeyOf(r))
    /\ \/ /\ Storable(resp[r]) /\ ~PrimaryKeyConflict(KeyOf(r))
          /\ idem' = [idem EXCEPT ![KeyOf(r)] =
                        MwRow(MwRequestHash(req[r].body), resp[r])]
       \/ UNCHANGED idem
    /\ Goto(r, "done")
    /\ UNCHANGED <<subs, prov, createCalls, mutateCalls, req, tx, local, prior,
                   hist>>
    /\ UNCHANGED hookVars
    /\ UNCHANGED usageVars
    /\ UNCHANGED configVars

(* ---------------------------------------------------------------------- *)
(* Provider reads used by the webhook                                      *)
(* ---------------------------------------------------------------------- *)
\* fake_provider.py 206-230: the record _ensure_sub makes up for an id it
\* does not know (no metadata, no customer).
SynthSub ==
    [ProvSub("active", FALSE, NoValue) EXCEPT !.customer = NoValue,
                                              !.current_period = [epoch |-> 2]]

Known(p, sid) == sid \in DOMAIN p /\ p[sid] # NoSub

\* retrieve_subscription: the outcomes of one call, each with the provider
\* state it leaves.  The fake (fake_provider.py 43-48) never raises and
\* stores the record it makes up; Stripe (stripe_provider.py 235-249)
\* returns the subscription or raises.
retrieve_subscription(b, p, sid) ==
    IF b = "fake"
    THEN IF Known(p, sid)
         THEN {[ok |-> TRUE, sub |-> p[sid], prov |-> p]}
         ELSE {[ok |-> TRUE, sub |-> SynthSub, prov |-> [p EXCEPT ![sid] = SynthSub]]}
    ELSE {[ok |-> FALSE, sub |-> NoSub, prov |-> p]}
         \cup (IF Known(p, sid)
               THEN {[ok |-> TRUE, sub |-> p[sid], prov |-> p]}
               ELSE {})

\* metadata.project_id of the customers the provider holds.
CustomerProject(c) ==
    IF c = "cus_1" THEN "T1" ELSE IF c = "cus_2" THEN "T2" ELSE NoValue

\* retrieve_customer(c).metadata.project_id as the inference reads it: the
\* fake (fake_provider.py 50-57) never raises; a raising Stripe call
\* (stripe_provider.py 77-85) is swallowed by the caller's except clause.
ProjectOfCustomer(b, c) ==
    IF b = "fake" THEN {CustomerProject(c)} ELSE {CustomerProject(c), NoValue}

(* ---------------------------------------------------------------------- *)
(* api/stripe_webhooks.py webhook, up to the dedup gate                    *)
(* ---------------------------------------------------------------------- *)
\* stripe_webhooks.py 65-70 with the two verify_signature implementations.
\* Fake: json.loads of the body, the header is ignored, a body that is not
\* JSON raises.  Stripe: no header -> 400; construct_event raises on a bad
\* signature or body and the provider turns that into a 400.
verify_signature(b, payload, sig) ==
    IF b = "fake"
    THEN IF payload = Unparsable
         THEN [ok |-> FALSE, response |-> Error(500, "internal")]
         ELSE [ok |-> TRUE, response |-> NoResp]
    ELSE IF sig = NoHeader
         THEN [ok |-> FALSE, response |-> Error(400, "missing_signature")]
    ELSE IF sig # "valid" \/ payload = Unparsable
         THEN [ok |-> FALSE, response |-> Error(400, "invalid_signature")]
    ELSE [ok |-> TRUE, response |-> NoResp]

\* stripe_webhooks.py 24-37 on data.object: dict(x) of a JSON scalar raises.
_to_dict_raises(e) == e.object = "scalar"

\* stripe_webhooks.py 24-37 on data.object: a JSON object is kept, a
\* missing one becomes {} (every field the handler reads is then absent).
_to_dict(e) ==
    IF e.object = "dict" THEN e
    ELSE [e EXCEPT !.project = NoValue, !.localId = SqlNull,
                   !.subscription = SqlNull, !.objId = SqlNull,
                   !.customer = NoValue, !.status = NoValue,
                   !.cancel_at_period_end = SqlNull,
                   !.current_period = SqlNull, !.trial_end = SqlNull,
                   !.lines = <<>>]

\* stripe_webhooks.py 78: isinstance(obj, dict) holds of every _to_dict
\* result, so only the id and the type are guarded.
Malformed(e) == e.id = SqlNull \/ e.type = NoValue

StartsWithInvoice(type) ==
    type \in {"invoice.payment_succeeded", "invoice.payment_failed"}
StartsWithCustomerSubscription(type) ==
    type \in {"customer.subscription.updated", "customer.subscription.deleted"}

IsProviderId(x) == "id" \in DOMAIN x

\* The lookups in the other order: the invoice's customer before the
\* invoice's subscription.
_project_from_invoice_CustomerFirst(b, inv, p) ==
    IF CustomerProject(inv.customer) # NoValue
    THEN {[project |-> CustomerProject(inv.customer), prov |-> p]}
    ELSE IF IsProviderId(inv.subscription) /\ Known(p, inv.subscription.id)
    THEN {[project |-> p[inv.subscription.id].project_id, prov |-> p]}
    ELSE {[project |-> NoValue, prov |-> p]}

\* stripe_webhooks.py 183-210: subscription metadata first, then the
\* invoice's customer; each lookup swallows its own exception.
_project_from_invoice(b, inv, p) ==
    LET viaCustomer(q) ==
            IF inv.customer # NoValue
            THEN {[project |-> c, prov |-> q] : c \in ProjectOfCustomer(b, inv.customer)}
            ELSE {[project |-> NoValue, prov |-> q]}
    IN IF ~IsProviderId(inv.subscription)
       THEN viaCustomer(p)
       ELSE UNION { IF r.ok /\ r.sub.project_id # NoValue
                    THEN {[project |-> r.sub.project_id, prov |-> r.prov]}
                    ELSE viaCustomer(r.prov)
                    : r \in retrieve_subscription(b, p, inv.subscription.id) }

\* stripe_webhooks.py 227-260: the fetched subscription's metadata, then
\* the metadata of that subscription's customer; one try block around both.
ProjectViaSubscription(b, ref, p) ==
    IF ~IsProviderId(ref)
    THEN {[project |-> NoValue, prov |-> p]}
    ELSE UNION { IF ~r.ok
                 THEN {[project |-> NoValue, prov |-> r.prov]}
                 ELSE IF r.sub.project_id # NoValue
                 THEN {[project |-> r.sub.project_id, prov |-> r.prov]}
                 ELSE IF r.sub.customer # NoValue
                 THEN {[project |-> c, prov |-> r.prov]
                          : c \in ProjectOfCustomer(b, r.sub.customer)}
                 ELSE {[project |-> NoValue, prov |-> r.prov]}
                 : r \in retrieve_subscription(b, p, ref.id) }

\* stripe_webhooks.py 212-262
_infer_project_id_for_event(b, type, obj, p) ==
    IF obj.project # NoValue THEN {[project |-> obj.project, prov |-> p]}
    ELSE IF StartsWithInvoice(type) THEN _project_from_invoice(b, obj, p)
    ELSE IF StartsWithCustomerSubscription(type)
         THEN ProjectViaSubscription(b, obj.objId, p)
    ELSE IF type = "checkout.session.completed"
         THEN ProjectViaSubscription(b, obj.subscription, p)
    ELSE {[project |-> NoValue, prov |-> p]}

\* The check with events bucketed into a tenant instead of rejected.
TenantUnresolved_Bucketed(project) == FALSE

\* stripe_webhooks.py 86: `if not project_id`
TenantUnresolved(project) == project = NoValue

\* The delivery ends with the given response.
WFinish(d, response) ==
    /\ wresp' = [wresp EXCEPT ![d] = response]
    /\ wpc' = [wpc EXCEPT ![d] = "done"]

\* stripe_webhooks.py 62-89: signature, parsing, shape guard and tenant
\* inference of one delivery.  Deliveries are interchangeable, so they
\* arrive in index order.
webhook_receive(d) ==
    /\ wpc[d] = "idle"
    /\ d > 1 => wpc[d - 1] # "idle"
    /\ \E x \in Deliveries :
         LET v == verify_signature(backend, x.payload, x.sig)
             e == x.payload
             ended == {o \in Dlv : wpc[o] = "done"}
             Received(tenant) ==
                 dlv' = [dlv EXCEPT ![d] =
                            [payload |-> x.payload, sig |-> x.sig,
                             after |-> ended, tenant |-> tenant]]
         IN IF ~v.ok
              THEN /\ Received(NoValue) /\ WFinish(d, v.response)
                   /\ UNCHANGED <<prov, whist>>
            ELSE IF _to_dict_raises(e)
              THEN /\ Received(NoValue) /\ WFinish(d, Error(500, "internal"))
                   /\ UNCHANGED <<prov, whist>>
            ELSE IF Malformed(e)
              THEN /\ Received(NoValue) /\ WFinish(d, Error(400, "malformed"))
                   /\ UNCHANGED <<prov, whist>>
            ELSE \E t \in _infer_project_id_for_event(backend, e.type, _to_dict(e), prov) :
                   /\ prov' = t.prov
                   /\ Received(t.project)
                   /\ IF TenantUnresolved(t.project)
                        THEN /\ WFinish(d, Error(400, "tenant_unresolved"))
                             /\ UNCHANGED whist
                        ELSE /\ wpc' = [wpc EXCEPT ![d] = "w_record"]
                             /\ whist' = [whist EXCEPT ![d].validated = TRUE]
                             /\ UNCHANGED wresp
    /\ UNCHANGED <<idem, subs, createCalls, mutateCalls, req, pc, tx, local,
                   resp, prior, hist, backend, events, invoices, wtx>>
    /\ UNCHANGED usageVars
    /\ UNCHANGED configVars

\* repo.py 191-226, stripe_webhooks.py 91-99: lookup of a committed row
\* with this provider and payload id, then add + flush of the new row.
\* The table has no constraint on (provider, payload id), so the flush
\* never waits for or fails on a concurrent insert.
record_if_new(d) ==
    /\ wpc[d] = "w_record"
    /\ LET e == dlv[d].payload IN
       IF \E row \in events : row.provider = "stripe" /\ row.event_id = e.id
         THEN /\ WFinish(d, Deduped)
              /\ UNCHANGED wtx
         ELSE /\ wtx' = [wtx EXCEPT ![d] = PaymentEvent(d, dlv[d].tenant, e)]
              /\ wpc' = [wpc EXCEPT ![d] = "w_handle"]
              /\ UNCHANGED wresp
    /\ UNCHANGED <<idem, subs, prov, createCalls, mutateCalls, req, pc, tx,
                   local, resp, prior, hist, backend, events, invoices, dlv,
                   whist>>
    /\ UNCHANGED usageVars
    /\ UNCHANGED configVars

(* ---------------------------------------------------------------------- *)
(* api/stripe_webhooks.py webhook, the per-type handlers                   *)
(* ---------------------------------------------------------------------- *)
\* uuid.UUID(s) raises ValueError unless s is a UUID string.
IsUuid(s) == "str" \in DOMAIN s

\* SubscriptionRepo.get (repo.py 91-93)
get(rows, id) == IF id \in SubIds THEN rows[id] ELSE NoSub

\* SubscriptionRepo.get_by_stripe_id (repo.py 151-155): the ids of the rows
\* bound to the provider subscription (at most one, the column is unique).
get_by_stripe_id(rows, sid) ==
    {s \in SubIds : rows[s] # NoSub /\ rows[s].stripe_subscription_id = [id |-> sid]}

\* models.py 88: stripe_subscription_id is unique, so binding row s to a
\* provider id another row carries fails at the flush.
StripeIdTaken(rows, s, sid) == get_by_stripe_id(rows, sid) \ {s} # {}

\* An update that reads the cancel flag of the snapshot as a request to
\* flip the row's flag.
update_from_stripe_Toggle(row, snap) ==
    [row EXCEPT
       !.status = IF snap.status # NoValue THEN snap.status ELSE @,
       !.current_period =
           IF snap.current_period # SqlNull
           THEN _utc_from_epoch(snap.current_period) ELSE @,
       !.trial_end_at =
           IF snap.trial_end # SqlNull THEN _utc_from_epoch(snap.trial_end) ELSE @,
       !.cancel_at_period_end =
           IF snap.cancel_at_period_end # SqlNull /\ snap.cancel_at_period_end.bool
           THEN ~@ ELSE @,
       !.stripe_subscription_id =
           IF snap.stripe_subscription_id # SqlNull
           THEN snap.stripe_subscription_id ELSE @]

\* repo.py 157-182: only arguments that are not None are assigned.
update_from_stripe(row, snap) ==
    [row EXCEPT
       !.status = IF snap.status # NoValue THEN snap.status ELSE @,
       !.current_period =
           IF snap.current_period # SqlNull
           THEN _utc_from_epoch(snap.current_period) ELSE @,
       !.trial_end_at =
           IF snap.trial_end # SqlNull THEN _utc_from_epoch(snap.trial_end) ELSE @,
       !.cancel_at_period_end =
           IF snap.cancel_at_period_end # SqlNull
           THEN snap.cancel_at_period_end.bool ELSE @,
       !.stripe_subscription_id =
           IF snap.stripe_subscription_id # SqlNull
           THEN snap.stripe_subscription_id ELSE @]

\* stripe_webhooks.py 142-149: the arguments built from a fetched
\* subscription; bool(...) makes the cancel flag never None.
RemoteSnapshot(remote) ==
    [status |-> remote.status, current_period |-> remote.current_period,
     trial_end |-> remote.trial_end,
     cancel_at_period_end |-> [bool |-> remote.cancel_at_period_end],
     stripe_subscription_id |-> SqlNull]

\* The arguments taken from the fields embedded in the session object.
CheckoutSnapshot_FromEvent(remote, sid, obj) ==
    [status |-> obj.status, current_period |-> obj.current_period,
     trial_end |-> SqlNull,
     cancel_at_period_end |-> obj.cancel_at_period_end,
     stripe_subscription_id |-> [id |-> sid]]

\* stripe_webhooks.py 116-125: the arguments of the checkout handler, all
\* from provider.retrieve_subscription(session.subscription).
CheckoutSnapshot(remote, sid, obj) ==
    [RemoteSnapshot(remote) EXCEPT !.stripe_subscription_id = [id |-> sid]]

\* stripe_webhooks.py 158-165: the arguments taken from the event object.
EmbeddedSnapshot(obj) ==
    [status |-> obj.status, current_period |-> obj.current_period,
     trial_end |-> obj.trial_end,
     cancel_at_period_end |-> obj.cancel_at_period_end,
     stripe_subscription_id |-> SqlNull]

\* A deleted event that passes no status on.
CanceledSnapshot_NoStatus ==
    [status |-> NoValue, current_period |-> SqlNull, trial_end |-> SqlNull,
     cancel_at_period_end |-> SqlNull, stripe_subscription_id |-> SqlNull]

\* stripe_webhooks.py 174: update_from_stripe(local, status="canceled")
CanceledSnapshot ==
    [status |-> "canceled", current_period |-> SqlNull, trial_end |-> SqlNull,
     cancel_at_period_end |-> SqlNull, stripe_subscription_id |-> SqlNull]

\* An upsert that inserts a row for every payload.
upsert_from_stripe_InsertOnly(invs, rows, project, inv) ==
    invs \cup {[kind |-> "inv", rowid |-> inv.id,
                stripe_invoice_id |-> inv.objId.inv, project_id |-> project,
                subscription_id |-> SqlNull,
                status |-> IF inv.status # NoValue THEN inv.status ELSE "open",
                lines |-> inv.lines]}

\* InvoiceRepo.upsert_from_stripe and replace_lines_from_stripe_payload
\* (repo.py 234-327): update of the row with this provider invoice id, or
\* insert (the event that inserts a row stands for its uuid); then the
\* row's lines are deleted and those of the payload inserted.
upsert_from_stripe(invs, rows, project, inv) ==
    LET bound == IF IsProviderId(inv.subscription)
                 THEN get_by_stripe_id(rows, inv.subscription.id) ELSE {}
        local_sub_id == IF bound = {} THEN SqlNull
                        ELSE [uuid |-> CHOOSE s \in bound : TRUE]
        found == {x \in invs : x.stripe_invoice_id = inv.objId.inv}
        Mirror(row) ==
            [row EXCEPT
               !.status = IF inv.status # NoValue THEN inv.status ELSE @,
               !.subscription_id =
                   IF local_sub_id # SqlNull THEN local_sub_id ELSE @,
               !.lines = inv.lines]
    IN IF found # {}
       THEN (invs \ found) \cup {Mirror(x) : x \in found}
       ELSE invs \cup {[kind |-> "inv", rowid |-> inv.id,
                        stripe_invoice_id |-> inv.objId.inv,
                        project_id |-> project,
                        subscription_id |-> local_sub_id,
                        status |-> IF inv.status # NoValue THEN inv.status
                                   ELSE "open",
                        lines |-> inv.lines]}

\* What one run of the handlers can end in: whether db.commit() was
\* reached, the response, the tables as the session wrote them, the
\* provider state, and whether a provider call or the database raised.
\* A handler that commits on every path, also when it changed nothing.
Outcome_AlwaysCommit(commit, response, rows, invs, p, fault) ==
    [commit |-> TRUE, response |-> response, subs |-> rows,
     invoices |-> invs, prov |-> p, fault |-> fault]

Outcome(commit, response, rows, invs, p, fault) ==
    [commit |-> commit, response |-> response, subs |-> rows,
     invoices |-> invs, prov |-> p, fault |-> fault]

\* stripe_webhooks.py 106-126
CheckoutOutcomes(b, obj, rows, invs, p) ==
    IF obj.localId = SqlNull \/ ~IsProviderId(obj.subscription)
    THEN {Outcome(FALSE, Processed(obj.type), rows, invs, p, FALSE)}
    ELSE IF ~IsUuid(obj.localId)
    THEN {Outcome(FALSE, Error(500, "internal"), rows, invs, p, FALSE)}
    ELSE LET id == obj.localId.str
             local_sub == get(rows, id)
             sid == obj.subscription.id
         IN IF local_sub = NoSub
            THEN {Outcome(FALSE, Processed(obj.type), rows, invs, p, FALSE)}
            ELSE { IF ~r.ok
                   THEN Outcome(FALSE, Error(500, "internal"), rows, invs, r.prov, TRUE)
                   ELSE IF StripeIdTaken(rows, id, sid)
                   THEN Outcome(FALSE, Error(500, "internal"), rows, invs, r.prov, TRUE)
                   ELSE Outcome(TRUE, Processed(obj.type),
                                [rows EXCEPT ![id] =
                                    update_from_stripe(local_sub,
                                        CheckoutSnapshot(r.sub, sid, obj))],
                                invs, r.prov, FALSE)
                   : r \in retrieve_subscription(b, p, sid) }

\* stripe_webhooks.py 128-150
InvoiceOutcomes(b, obj, project, rows, invs, p) ==
    IF "inv" \notin DOMAIN obj.objId
    THEN {Outcome(FALSE, Error(500, "internal"), rows, invs, p, FALSE)}
    ELSE LET mirrored == upsert_from_stripe(invs, rows, project, obj) IN
         IF ~IsProviderId(obj.subscription)
         THEN {Outcome(TRUE, Processed(obj.type), rows, mirrored, p, FALSE)}
         ELSE LET sid == obj.subscription.id
                  found == get_by_stripe_id(rows, sid)
              IN { IF ~r.ok
                   THEN Outcome(FALSE, Error(500, "internal"), rows, invs, r.prov, TRUE)
                   ELSE Outcome(TRUE, Processed(obj.type),
                                [s \in SubIds |->
                                    IF s \in found
                                    THEN update_from_stripe(rows[s], RemoteSnapshot(r.sub))
                                    ELSE rows[s]],
                                mirrored, r.prov, FALSE)
                   : r \in retrieve_subscription(b, p, sid) }

\* stripe_webhooks.py 152-175: customer.subscription.updated / .deleted
\* commit only when a local row carries the object's id.
SubscriptionOutcomes(obj, snap, rows, invs, p) ==
    LET found == IF IsProviderId(obj.objId)
                 THEN get_by_stripe_id(rows, obj.objId.id) ELSE {}
    IN IF found = {}
       THEN {Outcome(FALSE, Processed(obj.type), rows, invs, p, FALSE)}
       ELSE {Outcome(TRUE, Processed(obj.type),
                     [s \in SubIds |->
                         IF s \in found THEN update_from_stripe(rows[s], snap)
                         ELSE rows[s]],
                     invs, p, FALSE)}

\* stripe_webhooks.py 101-178
HandlerOutcomes(b, e, project, rows, invs, p) ==
    LET obj == _to_dict(e) IN
    IF e.type = "checkout.session.completed"
      THEN CheckoutOutcomes(b, obj, rows, invs, p)
    ELSE IF StartsWithInvoice(e.type)
      THEN InvoiceOutcomes(b, obj, project, rows, invs, p)
    ELSE IF e.type = "customer.subscription.updated"
      THEN SubscriptionOutcomes(obj, EmbeddedSnapshot(obj), rows, invs, p)
    ELSE IF e.type = "customer.subscription.deleted"
      THEN SubscriptionOutcomes(obj, CanceledSnapshot, rows, invs, p)
    ELSE {Outcome(FALSE, Processed(e.type), rows, invs, p, FALSE)}

\* A session that commits what it flushed when it is closed.
CloseSession_Autocommit(committed, pending) == committed \cup pending

\* deps.py 21-23: the session is closed when the request ends; what it
\* flushed and did not commit is rolled back.
CloseSession(committed, pending) == committed

\* stripe_webhooks.py 101-178: the handler of the event type, and the end
\* of the request.  Everything the session wrote (the payment_events row,
\* the invoice, the subscription) becomes visible at its one db.commit();
\* without one the session is closed with its writes pending.
webhook_handlers(d) ==
    /\ wpc[d] = "w_handle"
    /\ \E o \in HandlerOutcomes(backend, dlv[d].payload, dlv[d].tenant,
                                subs, invoices, prov) :
         /\ prov' = o.prov
         /\ IF o.commit
              THEN /\ subs' = o.subs
                   /\ invoices' = o.invoices
                   /\ events' = events \cup {wtx[d]}
              ELSE /\ events' = CloseSession(events, {wtx[d]})
                   /\ UNCHANGED <<subs, invoices>>
         /\ whist' = [whist EXCEPT
                        ![d].mutated = o.commit /\ (o.subs # subs \/ o.invoices # invoices),
                        ![d].fault = o.fault]
         /\ WFinish(d, o.response)
    /\ wtx' = [wtx EXCEPT ![d] = NoRow]
    /\ UNCHANGED <<idem, createCalls, mutateCalls, req, pc, tx, local, resp,
                   prior, hist, backend, dlv>>
    /\ UNCHANGED usageVars
    /\ UNCHANGED configVars

\* The delivery's task is cancelled (client disconnect, shutdown) after
\* record_if_new: the session is closed without a commit and the provider
\* receives no response.
webhook_cancelled(d) ==
    /\ wpc[d] = "w_handle"
    /\ events' = CloseSession(events, {wtx[d]})
    /\ wtx' = [wtx EXCEPT ![d] = NoRow]
    /\ WFinish(d, Aborted)
    /\ UNCHANGED <<idem, subs, prov, createCalls, mutateCalls, req, pc, tx,
                   local, resp, prior, hist, backend, invoices, dlv, whist>>
    /\ UNCHANGED usageVars
    /\ UNCHANGED configVars

(* ---------------------------------------------------------------------- *)
(* api/usage.py record_usage and UsageRepo.upsert_event                    *)
(* ---------------------------------------------------------------------- *)
\* UsageEventRequest after pydantic parsing (api_models.py 56-62).
\* sourceId is absent / null, the empty string (the field has no
\* min_length), or an id of the upstream system.
UsageBodies ==
    [accountId : {"acct_1"}, metricKey : {"api_calls"}, quantity : {1, 2},
     sourceId : {SqlNull, [sid |-> ""], [sid |-> "src_1"]}]

\* repo.py 392: `if source_id:` is false for None and for "".
Truthy(source_id) == source_id # SqlNull /\ source_id.sid # ""

\* The row upsert_event builds (repo.py 405-413); the call that inserts it
\* stands for its uuid.
UsageRecord(c, project, body) ==
    [rowid |-> c, project_id |-> project, account_id |-> body.accountId,
     metric_key |-> body.metricKey, quantity |-> body.quantity,
     source_id |-> body.sourceId]

\* The columns of uq_usage_dedupe (models.py 214-216).
DedupeKey(row) ==
    <<row.project_id, row.account_id, row.metric_key, row.source_id>>

\* repo.py 393-401: the rows the SELECT matches.
SameKey(rows, project, body) ==
    {row \in rows : DedupeKey(row) = DedupeKey(UsageRecord(0, project, body))}

\* uq_usage_dedupe rejects the row: a row in `rows` has the same four
\* columns; a NULL source_id never equals another.
Conflicts(rows, row) ==
    /\ row.source_id # SqlNull
    /\ \E x \in rows : DedupeKey(x) = DedupeKey(row)

\* usage.py 34, 56-65: the 201 with the UsageEventResponse built from a row.
Created(row) ==
    Response(Http(201), JsonHeaders,
             Compact([id |-> [str |-> row.rowid], projectId |-> row.project_id,
                      accountId |-> row.account_id, metricKey |-> row.metric_key,
                      quantity |-> row.quantity, sourceId |-> row.source_id]))

\* usage.py 34-55 with repo.py 392-403: a call of the route (by a request
\* the middlewares let through) up to the lookup.  A row found is returned
\* as it is; db.commit() then has nothing to write.  Calls are
\* interchangeable, so they arrive in index order.
record_usage(c) ==
    /\ upc[c] = "idle"
    /\ c > 1 => upc[c - 1] # "idle"
    /\ \E project \in {"T1", "T2"}, body \in UsageBodies :
         LET found == IF Truthy(body.sourceId)
                      THEN SameKey(usage, project, body) ELSE {}
         IN /\ ucall' = [ucall EXCEPT ![c] =
                            [tenant |-> project, body |-> body,
                             prior |-> SameKey(usage, project, body)]]
            /\ IF found # {}
                 THEN /\ uresp' = [uresp EXCEPT ![c] =
                                      Created(CHOOSE row \in found : TRUE)]
                      /\ upc' = [upc EXCEPT ![c] = "done"]
                 ELSE /\ upc' = [upc EXCEPT ![c] = "u_insert"]
                      /\ UNCHANGED uresp
    /\ UNCHANGED <<usage, utx>>
    /\ UNCHANGED <<idem, subs, prov, createCalls, mutateCalls, req, pc, tx,
                   local, resp, prior, hist>>
    /\ UNCHANGED hookVars
    /\ UNCHANGED configVars

\* repo.py 405-417: add + flush + refresh.  The INSERT waits while another
\* session holds an uncommitted row with the same uq_usage_dedupe columns,
\* and raises IntegrityError when a committed one exists; record_usage does
\* not catch it, so the call ends as a 500.
upsert_event(c) ==
    /\ upc[c] = "u_insert"
    /\ LET row == UsageRecord(c, ucall[c].tenant, ucall[c].body) IN
       /\ ~Conflicts({utx[o] : o \in {x \in Call \ {c} : utx[x] # NoRow}}, row)
       /\ IF Conflicts(usage, row)
            THEN /\ uresp' = [uresp EXCEPT ![c] = Error(500, "internal")]
                 /\ upc' = [upc EXCEPT ![c] = "done"]
                 /\ UNCHANGED utx
            ELSE /\ utx' = [utx EXCEPT ![c] = row]
                 /\ upc' = [upc EXCEPT ![c] = "u_commit"]
                 /\ UNCHANGED uresp
    /\ UNCHANGED <<usage, ucall>>
    /\ UNCHANGED <<idem, subs, prov, createCalls, mutateCalls, req, pc, tx,
                   local, resp, prior, hist>>
    /\ UNCHANGED hookVars
    /\ UNCHANGED configVars

\* usage.py 55-65: db.commit() and the 201 with the new row.
record_usage_commit(c) ==
    /\ upc[c] = "u_commit"
    /\ usage' = usage \cup {utx[c]}
    /\ utx' = [utx EXCEPT ![c] = NoRow]
    /\ uresp' = [uresp EXCEPT ![c] = Created(utx[c])]
    /\ upc' = [upc EXCEPT ![c] = "done"]
    /\ UNCHANGED ucall
    /\ UNCHANGED <<idem, subs, prov, createCalls, mutateCalls, req, pc, tx,
                   local, resp, prior, hist>>
    /\ UNCHANGED hookVars
    /\ UNCHANGED configVars

(* ---------------------------------------------------------------------- *)
(* Specification                                                           *)
(* ---------------------------------------------------------------------- *)
Next ==
    \E r \in Req :
        \/ Arrive(r)
        \/ HGet(r)
        \/ create_in_progress(r)
        \/ EValidate(r)
        \/ EPersist(r)
        \/ ECall(r)
        \/ EUpdate(r)
        \/ HFinish(r)
        \/ Abort(r)
        \/ MGet(r)
        \/ MCall(r)
        \/ MUpdate(r)
        \/ MwStore(r)

Spec == Init /\ [][Next]_vars

\* POST /config (config.py 20-56): the tenant publishes a new config
\* version with the same plans; the row is committed at config.py 56.  The
\* request carries an idempotency key of its own, which no command uses.
publish_config ==
    /\ get_latest(config_versions) < MaxVersion
    /\ config_versions' = config_versions \cup {get_latest(config_versions) + 1}
    /\ UNCHANGED <<idem, subs, prov, createCalls, mutateCalls, req, pc, tx,
                   local, resp, prior, hist, cfg_json>>
    /\ UNCHANGED hookVars
    /\ UNCHANGED usageVars

\* Commands of the tenant while it publishes config versions.
NextC == Next \/ publish_config

\* The store of Init when one command is still to come: the tasks before
\* the last one have been turned away for a missing X-Project-Id
\* (main.py 73-78).
InitC ==
    LET body == [planCode |-> "BASIC", checkout |-> "False", cancelAtPeriodEnd |-> TRUE]
        early == Req \ {NReq}
    IN
    /\ idem = [k \in TK |-> NoRow]
    /\ subs = [s \in SubIds |->
                 IF s = S0
                 THEN [PendingSub("T1", "BASIC") EXCEPT !.status = "active",
                          !.stripe_subscription_id = [id |-> S0],
                          !.current_period = _utc_from_epoch([epoch |-> 1]),
                          !.config_version_id = PreviousConfigVersion]
                 ELSE NoSub]
    /\ prov = [s \in SubIds |->
                 IF s = S0 THEN ProvSub("active", FALSE, "T1") ELSE NoSub]
    /\ createCalls = [k \in TK |-> 0]
    /\ mutateCalls = [k \in TK |-> 0]
    /\ req = [r \in Req |->
                IF r \in early
                THEN [op |-> "create", project |-> NoHeader, key |-> "K1",
                      body |-> body, target |-> S0]
                ELSE NoReq]
    /\ pc = [r \in Req |-> IF r \in early THEN "done" ELSE "idle"]
    /\ tx = [r \in Req |-> NoRow]
    /\ local = [r \in Req |-> SqlNull]
    /\ resp = [r \in Req |->
                 IF r \in early THEN Error(422, "missing_project_header")
                 ELSE NoResp]
    /\ prior = [r \in Req |-> NoRow]
    /\ hist = [r \in Req |-> [engine |-> FALSE, gatewayError |-> FALSE]]
    /\ HooksIdle
    /\ UsageIdle
    /\ ConfigPublished

ConfigSpec == InitC /\ [][NextC]_vars

\* The store when webhooks for a checkout arrive: the tenant's earlier
\* create_subscription in the checkout flow has committed row 1 (pending,
\* with its checkout URL) and left its record failed (engine.py 327); with
\* Stripe the provider has opened subscription P1 for the completed
\* checkout, the fake provider keeps no record of a checkout.
InitW ==
    LET body == [planCode |-> "BASIC", checkout |-> "None", cancelAtPeriodEnd |-> TRUE]
        k == <<"T1", "K1">>
    IN
    /\ HooksIdle
    /\ UsageIdle
    /\ ConfigPublished
    /\ idem = [[x \in TK |-> NoRow] EXCEPT
                  ![k] = mark_failed(InProgressRow(_stable_request_hash(body)),
                                     [type |-> "error"])]
    /\ subs = [s \in SubIds |->
                 IF s = S0
                 THEN [PendingSub("T1", "BASIC") EXCEPT !.status = "active",
                          !.stripe_subscription_id = [id |-> P0],
                          !.current_period = _utc_from_epoch([epoch |-> 1])]
                 ELSE IF s = 1
                 THEN [PendingSub("T1", "BASIC") EXCEPT
                          !.checkout_url = [url |-> "checkout_url"]]
                 ELSE NoSub]
    /\ prov = [s \in SubIds |->
                 IF s = P0 THEN ProvSub("active", FALSE, "T1")
                 ELSE IF s = P1 /\ backend = "stripe"
                 THEN ProvSub("trialing", FALSE, "T1")
                 ELSE NoSub]
    /\ createCalls = [[x \in TK |-> 0] EXCEPT ![k] = 1]
    /\ mutateCalls = [x \in TK |-> 0]
    /\ req = [r \in Req |-> NoReq]
    /\ pc = [r \in Req |-> "idle"]
    /\ tx = [r \in Req |-> NoRow]
    /\ local = [r \in Req |-> SqlNull]
    /\ resp = [r \in Req |-> NoResp]
    /\ prior = [r \in Req |-> NoRow]
    /\ hist = [r \in Req |-> [engine |-> FALSE, gatewayError |-> FALSE]]

NextW ==
    \E d \in Dlv :
        \/ webhook_receive(d)
        \/ record_if_new(d)
        \/ webhook_handlers(d)
        \/ webhook_cancelled(d)

WebhookSpec == InitW /\ [][NextW]_vars

\* The store when the subscription present at start belongs to another
\* tenant than the one whose requests arrive: row S0 and the provider
\* subscription it is bound to were created for tenant T2.
InitT ==
    /\ idem = [k \in TK |-> NoRow]
    /\ subs = [s \in SubIds |->
                 IF s = S0
                 THEN [PendingSub("T2", "BASIC") EXCEPT !.status = "active",
                          !.stripe_subscription_id = [id |-> S0],
                          !.current_period = _utc_from_epoch([epoch |-> 1])]
                 ELSE NoSub]
    /\ prov = [s \in SubIds |->
                 IF s = S0 THEN ProvSub("active", FALSE, "T2") ELSE NoSub]
    /\ createCalls = [k \in TK |-> 0]
    /\ mutateCalls = [k \in TK |-> 0]
    /\ req = [r \in Req |-> NoReq]
    /\ pc = [r \in Req |-> "idle"]
    /\ tx = [r \in Req |-> NoRow]
    /\ local = [r \in Req |-> SqlNull]
    /\ resp = [r \in Req |-> NoResp]
    /\ prior = [r \in Req |-> NoRow]
    /\ hist = [r \in Req |-> [engine |-> FALSE, gatewayError |-> FALSE]]
    /\ HooksIdle
    /\ UsageIdle
    /\ ConfigPublished

NextT ==
    \/ Next
    \/ \E r \in Req : get_subscription(r)

TenantSpec == InitT /\ [][NextT]_vars

NextU ==
    \E c \in Call :
        \/ record_usage(c)
        \/ upsert_event(c)
        \/ record_usage_commit(c)

UsageSpec == Init /\ [][NextU]_vars

(* ---------------------------------------------------------------------- *)
(* Properties of the idempotent command gate                               *)
(* ---------------------------------------------------------------------- *)
Arrived(r) == pc[r] # "idle"
Done(r) == pc[r] = "done"
Answered(r) == Done(r) /\ resp[r].kind = "http"
IsCreate(r) == Arrived(r) /\ req[r].op = "create"
HasGateHeaders(r) == req[r].project # NoHeader /\ req[r].key # NoHeader
HandlerRecord(row, tag) == row # NoRow /\ row.status = Tag(tag)

\* C1: in every interleaving of create requests the gateway sees at most
\* one create_checkout_session / create_subscription call per
\* (project_id, key).
C1_AtMostOneCreateCall ==
    \A k \in TK : createCalls[k] <= 1

\* Two create requests with the same key and body both passed the
\* middleware lookup before any record was committed, both have ended, and
\* exactly one gateway call was made.
C1_Witness ==
    \E a \in Req, b \in Req :
        /\ a # b /\ IsCreate(a) /\ IsCreate(b)
        /\ HasGateHeaders(a) /\ KeyOf(a) = KeyOf(b) /\ req[a].body = req[b].body
        /\ prior[a] = NoRow /\ prior[b] = NoRow
        /\ Done(a) /\ Done(b)
        /\ hist[a].engine /\ pc[b] = "done" /\ resp[b].kind = "http"
        /\ createCalls[KeyOf(a)] = 1

\* C2: a create request that arrives when the record of its
\* (project_id, key) is succeeded with the hash of its body receives the
\* response cached in the record (the first response), the engine is not
\* invoked and no Subscription row is created for it.
C2_ReplayReturnsCachedResponse ==
    \A r \in Req :
        (/\ IsCreate(r) /\ Done(r)
         /\ HandlerRecord(prior[r], "succeeded")
         /\ prior[r].request_hash = _stable_request_hash(req[r].body))
        => /\ resp[r] = DtoResponse(201, FromPayload(prior[r].response))
           /\ ~hist[r].engine
           /\ subs[r] = NoSub

\* C3: a create request that arrives when the record of its
\* (project_id, key) carries the hash of another body is answered 409
\* key-reuse conflict, whatever the record's status, and the engine is not
\* invoked.
C3_KeyReuseIsRejected ==
    \A r \in Req :
        (/\ IsCreate(r) /\ Done(r)
         /\ prior[r] # NoRow /\ prior[r].status \in {Tag("in_progress"), Tag("succeeded"), Tag("failed")}
         /\ prior[r].request_hash # _stable_request_hash(req[r].body))
        => /\ resp[r] = Error(409, "key_reuse_conflict")
           /\ ~hist[r].engine

\* C4: a create request that arrives when the record of its
\* (project_id, key) is in_progress is answered 409 in progress, does not
\* invoke the engine, and the record is still in_progress unless the
\* request that inserted it has finished it.
C4_InProgressGets409 ==
    \A r \in Req :
        (/\ IsCreate(r) /\ Done(r)
         /\ HandlerRecord(prior[r], "in_progress"))
        => /\ resp[r] = Error(409, "in_progress")
           /\ ~hist[r].engine

\* C5: a create request that arrives when the record of its
\* (project_id, key) is failed re-runs the operation: the engine is invoked
\* for it.
C5_FailedRecordPermitsRetry ==
    \A r \in Req :
        (/\ IsCreate(r) /\ Answered(r)
         /\ HandlerRecord(prior[r], "failed"))
        => hist[r].engine

\* C6: when a gateway call raised during create_subscription, no
\* Subscription row of that command is committed and the record of its
\* (project_id, key) is failed.
C6_GatewayFailureLeavesNoRow ==
    \A r \in Req :
        (IsCreate(r) /\ Done(r) /\ hist[r].gatewayError)
        => /\ subs[r] = NoSub
           /\ HandlerRecord(idem[KeyOf(r)], "failed")

\* C7: in no committed state is the Subscription row written by a create
\* command visible while the record of its (project_id, key) is still
\* in_progress.
C7_RowNeverVisibleWhileInProgress ==
    \A r \in Req :
        (IsCreate(r) /\ subs[r] # NoSub)
        => ~HandlerRecord(idem[KeyOf(r)], "in_progress")

\* C8: once an attempt has completed successfully (the record of the
\* (project_id, key) is succeeded), every create request with that key and
\* body that was issued before any record was committed (concurrently with
\* the successful one) and has received a final answer (one that is not a
\* 409, which would be retried) has received the response of the
\* successful attempt.
C8_AllCallersSameResponse ==
    \A r \in Req :
        (/\ IsCreate(r) /\ Answered(r) /\ prior[r] = NoRow
         /\ resp[r].status # Http(409)
         /\ HandlerRecord(idem[KeyOf(r)], "succeeded")
         /\ idem[KeyOf(r)].request_hash = _stable_request_hash(req[r].body))
        => resp[r] = DtoResponse(201, FromPayload(idem[KeyOf(r)].response))

\* C9: a request without X-Project-Id or without Idempotency-Key is
\* answered with a missing-header error before the route runs: the engine
\* is not invoked, no gateway call is made and no row is written for it.
C9_MissingHeaderRejected ==
    \A r \in Req :
        (Arrived(r) /\ ~HasGateHeaders(r))
        => /\ Done(r)
           /\ resp[r] \in {Error(422, "missing_project_header"),
                           Error(422, "missing_gate_header")}
           /\ ~hist[r].engine
           /\ createCalls[KeyOf(r)] = 0 /\ mutateCalls[KeyOf(r)] = 0
           /\ idem[KeyOf(r)] = NoRow
           /\ subs[r] = NoSub

\* A change-plan request without Idempotency-Key and a create request
\* without X-Project-Id have both been rejected.
C9_Witness ==
    \E a \in Req, b \in Req :
        /\ Done(a) /\ req[a].op = "change_plan"
        /\ req[a].project # NoHeader /\ req[a].key = NoHeader
        /\ resp[a] = Error(422, "missing_gate_header")
        /\ Done(b) /\ req[b].op = "create"
        /\ req[b].project = NoHeader
        /\ resp[b] = Error(422, "missing_project_header")

\* C10: for change-plan, cancel and resume requests the gateway sees at
\* most one update_subscription / cancel_subscription /
\* resume_subscription call per (project_id, key).
C10_AtMostOneMutationPerKey ==
    \A k \in TK : mutateCalls[k] <= 1

(* ---------------------------------------------------------------------- *)
(* Properties of the webhook reconciliation path                           *)
(* ---------------------------------------------------------------------- *)
WArrived(d) == wpc[d] # "idle"
WDone(d) == wpc[d] = "done"
Acknowledged(d) == wresp[d].kind = "http" /\ wresp[d].status = Http(200)
Recorded(d) == \E row \in events : row.rowid = d
RowsOfEvent(id) == {row \in events : row.provider = "stripe" /\ row.event_id = id}

\* C11: when an event that passed signature, shape and tenant validation
\* and was acknowledged is delivered again afterwards (same event id, same
\* payload), the later delivery is answered deduped=true and commits no
\* change to a Subscription or Invoice row.
C11_RedeliveryIsDeduped ==
    \A a \in Dlv, b \in Dlv :
        (/\ WDone(b) /\ a \in dlv[b].after
         /\ whist[a].validated /\ whist[b].validated
         /\ dlv[a].payload = dlv[b].payload
         /\ Acknowledged(a))
        => /\ wresp[b] = Deduped
           /\ ~whist[b].mutated

\* C12: for a given provider and provider event id at most one PaymentEvent
\* row is ever committed, also when deliveries of the event are processed
\* concurrently.
C12_AtMostOneRowPerEvent ==
    \A row \in events : Cardinality(RowsOfEvent(row.event_id)) <= 1

\* The step in which delivery d leaves the handlers (response or
\* cancellation).
HandlingEnds(d) == wpc[d] = "w_handle" /\ wpc'[d] = "done"

\* C13: the PaymentEvent row of a delivery and the Subscription / Invoice
\* changes of its handler become persistent in the same step or not at all:
\* a delivery whose handling does not reach the commit (a provider read
\* raises, the task is cancelled, any non-200 end) leaves payment_events,
\* subscriptions and invoices as they were; no step changes a mirror row
\* without adding the event row; and a delivery of an event that has no
\* committed row is processed, not deduped.
C13_RecordAndMutationCommitTogether ==
    [][ /\ \A d \in Dlv :
             HandlingEnds(d) =>
                 /\ wtx[d] \notin events' => UNCHANGED <<events, subs, invoices>>
                 /\ ~Acknowledged(d)' => wtx[d] \notin events'
        /\ (subs' # subs \/ invoices' # invoices) =>
               \E d \in Dlv : HandlingEnds(d) /\ wtx[d] \in events' \ events
        /\ \A d \in Dlv :
             (wpc[d] = "w_record" /\ wpc'[d] # "w_record"
              /\ RowsOfEvent(dlv[d].payload.id) = {})
             => wpc'[d] = "w_handle"
      ]_vars

\* A delivery of an invoice event failed on the provider read and left
\* nothing behind; the event was delivered again, processed and committed.
C13_Witness ==
    \E a \in Dlv, b \in Dlv :
        /\ WDone(a) /\ WDone(b) /\ a \in dlv[b].after
        /\ dlv[a].payload = dlv[b].payload
        /\ whist[a].fault /\ IsServerError(wresp[a]) /\ ~Recorded(a)
        /\ StartsWithInvoice(dlv[a].payload.type)
        /\ wresp[b] = Processed(dlv[b].payload.type)
        /\ Recorded(b) /\ whist[b].mutated
        /\ Cardinality(events) = 1

\* The provider subscription an event refers to, and what the provider
\* holds about the tenant of an event: the metadata of that subscription
\* and of the customer (the event's own, else the subscription's).
SubscriptionRef(e) ==
    IF StartsWithCustomerSubscription(e.type) THEN e.objId
    ELSE IF StartsWithInvoice(e.type) \/ e.type = "checkout.session.completed"
         THEN e.subscription
    ELSE SqlNull
SubscriptionOf(e, p) ==
    IF IsProviderId(SubscriptionRef(e)) /\ Known(p, SubscriptionRef(e).id)
    THEN p[SubscriptionRef(e).id] ELSE NoSub
CustomerOf(e, p) ==
    IF e.customer # NoValue THEN e.customer
    ELSE IF SubscriptionOf(e, p) # NoSub THEN SubscriptionOf(e, p).customer
    ELSE NoValue
NoTenantInfo(e, p) ==
    /\ e.project = NoValue
    /\ SubscriptionOf(e, p) # NoSub => SubscriptionOf(e, p).project_id = NoValue
    /\ CustomerProject(CustomerOf(e, p)) = NoValue

\* The step in which delivery d is received.
Receives(d) == wpc[d] = "idle" /\ wpc'[d] # "idle"

\* C14: a validly signed, well-formed event that carries no project_id in
\* its object's metadata, and whose referenced subscription and customer
\* carry none either, is answered 400 at once: no PaymentEvent row is
\* written for it and no Subscription or Invoice row changes; and no
\* PaymentEvent row is ever attributed to anything but a real tenant.
C14_TenantUnresolvedRejected ==
    [][ /\ \A d \in Dlv :
             (/\ Receives(d)
              /\ dlv'[d].sig = "valid" /\ dlv'[d].payload \in WellFormedEvents
              /\ NoTenantInfo(dlv'[d].payload, prov))
             => /\ wpc'[d] = "done"
                /\ wresp'[d] = Error(400, "tenant_unresolved")
                /\ UNCHANGED <<events, subs, invoices>>
        /\ \A d \in Dlv :
             (wpc'[d] = "done" /\ wresp'[d] = Error(400, "tenant_unresolved"))
             => ~Recorded(d)' /\ ~whist'[d].mutated
        /\ \A row \in events' : row.project_id # NoValue
      ]_vars

\* A checkout event without metadata.project_id, for a provider
\* subscription that has neither metadata nor customer, was rejected with
\* 400 and left the store as it was.
C14_Witness ==
    \E d \in Dlv :
        /\ WDone(d)
        /\ dlv[d].sig = "valid"
        /\ dlv[d].payload = CheckoutCompleted(NoValue, LocalIdOfPending, [id |-> P1])
        /\ Known(prov, P1) /\ NoTenantInfo(dlv[d].payload, prov)
        /\ wresp[d] = Error(400, "tenant_unresolved")
        /\ events = {} /\ ~Recorded(d)
        /\ subs[1].status = "pending"

\* C15: a delivery whose Stripe-Signature header is absent or not valid for
\* its body, or whose body the provider's verify_signature cannot accept,
\* is answered 400 and goes no further: it is not validated, writes no
\* PaymentEvent row and changes no Subscription or Invoice row.
C15_BadSignatureRejected ==
    \A d \in Dlv :
        (WArrived(d) /\ (dlv[d].sig # "valid" \/ dlv[d].payload = Unparsable))
        => /\ ~whist[d].validated
           /\ ~Recorded(d) /\ ~whist[d].mutated
           /\ WDone(d) /\ wresp[d].kind = "http" /\ wresp[d].status = Http(400)

\* C16: a validly signed event without an id, without a type, or without a
\* JSON object under data.object is answered 400 "malformed" by the shape
\* guard: it never reaches tenant inference or the dedup gate, writes no
\* PaymentEvent row and changes no Subscription or Invoice row.
C16_MalformedEventRejected ==
    \A d \in Dlv :
        (WArrived(d) /\ dlv[d].sig = "valid" /\ dlv[d].payload \in IllFormedEvents)
        => /\ WDone(d) /\ wresp[d] = Error(400, "malformed")
           /\ ~whist[d].validated
           /\ ~Recorded(d) /\ ~whist[d].mutated

\* C17: the webhook endpoint answers 5xx only when a provider call or the
\* database failed while the event was handled; a delivery that is merely
\* unacceptable (bad signature or body, malformed event, no tenant, a
\* subscription_local_id that is unknown or not a UUID) gets a 4xx or a
\* 200 acknowledgment.
C17_NoServerErrorForRejections ==
    \A d \in Dlv :
        (WDone(d) /\ IsServerError(wresp[d])) => whist[d].fault

(* ---------------------------------------------------------------------- *)
(* Properties of the commands on a subscription without a provider id      *)
(* ---------------------------------------------------------------------- *)
\* C18: when change_plan, cancel or resume reaches the application for a
\* row of the caller's tenant whose stripe_subscription_id is null, the
\* request is answered 400 at that step, makes no provider mutation call
\* and leaves the subscriptions table and the provider as they were.
C18_UnboundRowFailsFast ==
    [][ \A r \in Req :
          (/\ pc[r] = "app" /\ pc'[r] # "app" /\ req[r].op # "create"
           /\ ~NotFound(subs[req[r].target], req[r].project)
           /\ subs[req[r].target].stripe_subscription_id = SqlNull)
          => /\ resp'[r] = Error(400, "validation_error")
             /\ pc'[r] # "m_call"
             /\ UNCHANGED <<subs, prov, mutateCalls>>
      ]_vars

(* ---------------------------------------------------------------------- *)
(* Properties of the checkout flow                                         *)
(* ---------------------------------------------------------------------- *)
\* C19: when the handlers acknowledge a checkout.session.completed event
\* that names a provider subscription and, by subscription_local_id, a
\* local row that is pending, then in that step the row is bound to the
\* provider subscription id, and its status, period and cancel flag are
\* those of the subscription as the provider holds it (not the values
\* embedded in the event); the status is active or trialing, and the
\* event's PaymentEvent row is committed with it.
C19_CheckoutCompletionBindsRow ==
    [][ \A d \in Dlv :
          LET e == dlv[d].payload IN
          (/\ HandlingEnds(d) /\ Acknowledged(d)'
           /\ e.type = "checkout.session.completed"
           /\ IsUuid(e.localId) /\ IsProviderId(e.subscription)
           /\ get(subs, e.localId.str) # NoSub
           /\ get(subs, e.localId.str).status = "pending")
          => LET row == subs'[e.localId.str]
                 remote == prov'[e.subscription.id]
             IN /\ row.stripe_subscription_id = [id |-> e.subscription.id]
                /\ row.status = remote.status
                /\ row.status \in {"active", "trialing"}
                /\ row.current_period = _utc_from_epoch(remote.current_period)
                /\ row.cancel_at_period_end = remote.cancel_at_period_end
                /\ wtx[d] \in events'
      ]_vars

\* The pending row of the checkout is bound to the provider subscription
\* and carries the provider's status and period after its completion event
\* was processed.
C19_Witness ==
    \E d \in Dlv :
        /\ WDone(d) /\ Recorded(d) /\ whist[d].mutated
        /\ dlv[d].payload = CheckoutCompleted("T1", LocalIdOfPending, [id |-> P1])
        /\ wresp[d] = Processed("checkout.session.completed")
        /\ subs[1].stripe_subscription_id = [id |-> P1]
        /\ subs[1].status = "trialing" /\ prov[P1].status = "trialing"
        /\ subs[1].current_period = _utc_from_epoch(prov[P1].current_period)
        /\ subs[1].cancel_at_period_end = FALSE

\* C20: a create_subscription in the checkout flow whose checkout session
\* was opened and stored on the row is answered as a success (201); its row
\* is pending, carries the checkout URL and has no provider subscription
\* id, and no later command changes that status or binds the row.
C20_CheckoutCreateLeavesPendingRow ==
    /\ \A r \in Req :
          (/\ Answered(r) /\ IsCreate(r)
           /\ _decide_flow(req[r].body.checkout) = "checkout"
           /\ subs[r] # NoSub /\ subs[r].checkout_url # SqlNull)
          => resp[r].status = Http(201)
    /\ \A s \in SubIds :
          (subs[s] # NoSub /\ subs[s].checkout_url # SqlNull)
          => /\ subs[s].status = "pending"
             /\ subs[s].stripe_subscription_id = SqlNull

(* ---------------------------------------------------------------------- *)
(* Properties of cancel, resume and change-plan                            *)
(* ---------------------------------------------------------------------- *)
\* The step in which request r calls the gateway and the call returns, and
\* the step in which it writes the returned state to its row.
GatewayReturns(r) == pc[r] = "m_call" /\ pc'[r] = "m_update"
MirrorWritten(r) == pc[r] = "m_update" /\ pc'[r] # "m_update"
CancelAtPeriodEnd(r) == req[r].op = "cancel" /\ req[r].body.cancelAtPeriodEnd

Handles(d, type) ==
    HandlingEnds(d) /\ dlv[d].payload.type = type /\ Acknowledged(d)'

\* C22: when the handlers process a customer.subscription.deleted event
\* whose object id is the provider subscription id of a local row, that
\* row's status becomes canceled whatever it was, its other columns and
\* every other row stay as they are, and no invoice changes.
C22_DeletedForcesCanceled ==
    [][ \A d \in Dlv :
          (/\ Handles(d, "customer.subscription.deleted")
           /\ get_by_stripe_id(subs, dlv[d].payload.objId.id) # {})
          => /\ \A s \in SubIds :
                  subs'[s] = IF s \in get_by_stripe_id(subs, dlv[d].payload.objId.id)
                             THEN [subs[s] EXCEPT !.status = "canceled"]
                             ELSE subs[s]
             /\ UNCHANGED invoices
             /\ wtx[d] \in events'
      ]_vars

\* The bound row had been set to past_due by an earlier event and is
\* canceled after the deleted event; the pending row is untouched.
C22_Witness ==
    \E a \in Dlv, d \in Dlv :
        /\ WDone(d) /\ Recorded(d) /\ a \in dlv[d].after /\ Recorded(a)
        /\ dlv[a].payload = SubscriptionUpdated("T1", P0, "past_due")
        /\ dlv[d].payload = SubscriptionDeleted("T1", P0)
        /\ whist[a].mutated /\ whist[d].mutated
        /\ subs[S0].status = "canceled"
        /\ subs[1].status = "pending"

\* C23: resume never reopens a subscription that is canceled: when the
\* provider's resume_subscription is called for a row whose status is
\* canceled, the provider subscription does not become active and the
\* status returned is not active; and what resume then writes to a canceled
\* row is that returned status with the cancel_at_period_end flag cleared.
C23_ResumeDoesNotReopen ==
    [][ \A r \in Req :
          /\ (/\ GatewayReturns(r) /\ req[r].op = "resume"
              /\ subs[req[r].target].status = "canceled")
             => /\ prov'[local[r].sid].status # "active"
                /\ local'[r].status # "active"
          /\ (/\ MirrorWritten(r) /\ req[r].op = "resume"
              /\ subs[req[r].target].status = "canceled"
              /\ local[r].status # "active")
             => /\ subs'[req[r].target].status # "active"
                /\ subs'[req[r].target].cancel_at_period_end = FALSE
      ]_vars

\* C24: no webhook delivery takes a row out of canceled: in every step in
\* which the handlers of a delivery finish, a row whose status is canceled
\* still has status canceled afterwards.
C24_CanceledIsFinalForWebhooks ==
    [][ \A d \in Dlv :
          HandlingEnds(d) =>
              \A s \in SubIds :
                  (subs[s] # NoSub /\ subs[s].status = "canceled")
                  => subs'[s].status = "canceled"
      ]_vars

\* C25: a change-plan that succeeds writes to its row the status and the
\* period the provider returned and the new plan code, and sets the row's
\* config_version_id to the latest config version, the one the new plan
\* was looked up in.
C25_ChangePlanRepinsRow ==
    [][ \A r \in Req :
          (MirrorWritten(r) /\ req[r].op = "change_plan")
          => LET row == subs'[req[r].target] IN
             /\ row.plan_code = req[r].body.planCode
             /\ row.status = local[r].status
             /\ row.current_period = _utc_from_epoch(local[r].current_period)
             /\ row.config_version_id = LatestConfigVersion
      ]_vars

\* C26: whenever a handler applies a subscription snapshot to a row and
\* commits (customer.subscription.updated: the event's object; invoice.* and
\* checkout.session.completed: the subscription fetched from the provider),
\* the row's status, period, trial end and cancel_at_period_end afterwards
\* all equal the snapshot's values, a null snapshot value leaving null.
C26_ReconciliationOverwrites ==
    [][ \A d \in Dlv :
          LET e == dlv[d].payload
              Overwritten(row, status, period, trial_end, cape) ==
                  /\ row.status = status
                  /\ row.current_period = _utc_from_epoch(period)
                  /\ row.trial_end_at = _utc_from_epoch(trial_end)
                  /\ row.cancel_at_period_end = cape
          IN
          (HandlingEnds(d) /\ Acknowledged(d)' /\ wtx[d] \in events')
          => /\ e.type = "customer.subscription.updated" =>
                  \A s \in get_by_stripe_id(subs, e.objId.id) :
                      Overwritten(subs'[s], e.status, e.current_period,
                                  e.trial_end, e.cancel_at_period_end.bool)
             /\ (StartsWithInvoice(e.type) /\ IsProviderId(e.subscription)) =>
                  \A s \in get_by_stripe_id(subs, e.subscription.id) :
                      LET remote == prov'[e.subscription.id] IN
                      Overwritten(subs'[s], remote.status, remote.current_period,
                                  remote.trial_end, remote.cancel_at_period_end)
             /\ e.type = "checkout.session.completed" =>
                  LET remote == prov'[e.subscription.id] IN
                  Overwritten(subs'[e.localId.str], remote.status,
                              remote.current_period, remote.trial_end,
                              remote.cancel_at_period_end)
      ]_vars

\* C27: when a customer.subscription.updated event is applied to a row to
\* which an event with another id and the same object has been applied
\* already, and no other delivery changed a row, the second application
\* commits (it is recorded under its own id) and leaves every subscription
\* and invoice row exactly as the first application left it.
C27_SameSnapshotTwiceIsIdempotent ==
    [][ \A a \in Dlv, d \in Dlv :
          (/\ Handles(d, "customer.subscription.updated")
           /\ a # d /\ WDone(a) /\ Recorded(a)
           /\ dlv[a].payload.type = "customer.subscription.updated"
           /\ dlv[a].payload.id # dlv[d].payload.id
           /\ [dlv[a].payload EXCEPT !.id = SqlNull]
                  = [dlv[d].payload EXCEPT !.id = SqlNull]
           /\ \A o \in Dlv \ {a, d} : ~whist[o].mutated)
          => /\ wtx[d] \in events'
             /\ UNCHANGED <<subs, invoices>>
      ]_vars

\* The past_due snapshot was applied to the bound row by one delivery and
\* then again by a delivery with another event id; both are recorded and
\* the second changed nothing.
C27_Witness ==
    \E a \in Dlv, d \in Dlv :
        /\ WDone(a) /\ WDone(d) /\ Recorded(a) /\ Recorded(d)
        /\ a \in dlv[d].after
        /\ dlv[a].payload = SubscriptionUpdated("T1", P0, "past_due")
        /\ dlv[d].payload = SameObjectLater(dlv[a].payload)
        /\ whist[a].mutated /\ ~whist[d].mutated
        /\ Acknowledged(d)
        /\ subs[S0].status = "past_due" /\ subs[S0].cancel_at_period_end
        /\ Cardinality(events) = 2

\* C28: once the provider's record of P0 has stopped changing, every event
\* it emitted for P0 has been delivered and acknowledged at least once (in
\* any order, with any duplication) and nothing is in flight, the status
\* and cancel_at_period_end of the row bound to P0 equal the provider's.
\* The provider's history here: P0 went past_due after a failed payment and
\* became active again when the payment succeeded, its state from then on.
C28_MirrorConvergesToProvider ==
    LET final == ProvSub("active", FALSE, "T1")
        emitted == { SubscriptionUpdated("T1", P0, "past_due"),
                     SnapshotEvent("T1", P0, final) }
        settled ==
            /\ \A r \in Req : pc[r] \in {"idle", "done"}
            /\ \A d \in Dlv : wpc[d] \in {"idle", "done"}
            /\ \A d \in Dlv : WDone(d) => /\ dlv[d].payload \in emitted
                                          /\ Acknowledged(d)
            /\ \A e \in emitted : \E d \in Dlv : WDone(d) /\ dlv[d].payload = e
            /\ prov[P0] = final
    IN settled =>
           \A s \in get_by_stripe_id(subs, P0) :
               /\ subs[s].status = prov[P0].status
               /\ subs[s].cancel_at_period_end = prov[P0].cancel_at_period_end

(* ---------------------------------------------------------------------- *)
(* Properties of the tenant partition                                      *)
(* ---------------------------------------------------------------------- *)
\* C29: a get, change-plan, cancel or resume that reaches its route with a
\* subscription id whose row belongs to another tenant than X-Project-Id,
\* or has no row, is answered 404 not_found; the route issues no gateway
\* call and changes no row, and neither does the rest of the request.
C29_ForeignSubscriptionIsNotFound ==
    [][ LET Owns(project, t) == subs[t] # NoSub /\ subs[t].project_id = project
            Stores == <<subs, prov, invoices, createCalls, mutateCalls>>
        IN
        \A r \in Req :
          /\ (/\ pc[r] = "app" /\ pc'[r] # "app"
              /\ req[r].op \in {"change_plan", "cancel", "resume"}
              /\ ~Owns(req[r].project, req[r].target))
             => /\ resp'[r] = Error(404, "not_found")
                /\ pc'[r] = "mw_store"
                /\ hist'[r] = [engine |-> FALSE, gatewayError |-> FALSE]
                /\ UNCHANGED Stores
          /\ (/\ pc[r] = "mw_store" /\ pc'[r] # "mw_store"
              /\ resp[r] = Error(404, "not_found"))
             => /\ resp'[r] = resp[r]
                /\ pc'[r] = "done"
                /\ UNCHANGED Stores
          /\ (/\ pc[r] = "idle" /\ pc'[r] # "idle"
              /\ req'[r].op = "get" /\ req'[r].project # NoHeader
              /\ ~Owns(req'[r].project, req'[r].target))
             => /\ resp'[r] = Error(404, "not_found")
                /\ pc'[r] = "done"
                /\ UNCHANGED Stores
      ]_vars

\* A command and a get of T1 on the row of the other tenant have both been
\* answered 404 by their routes; the row, its provider subscription and
\* the call counters are as they were.
C29_Witness ==
    \E r \in Req, g \in Req :
        /\ pc[r] = "done" /\ pc[g] = "done"
        /\ req[r].op \in {"change_plan", "cancel", "resume"}
        /\ req[g].op = "get"
        /\ req[r].project = "T1" /\ req[g].project = "T1"
        /\ req[r].target = S0 /\ req[g].target = S0
        /\ prior[r] = NoRow
        /\ resp[r] = Error(404, "not_found") /\ resp[g] = Error(404, "not_found")
        /\ subs[S0].project_id = "T2" /\ subs[S0].status = "active"
        /\ ~subs[S0].cancel_at_period_end
        /\ prov[S0] = ProvSub("active", FALSE, "T2")
        /\ \A k \in TK : mutateCalls[k] = 0

(* ---------------------------------------------------------------------- *)
(* Properties of usage recording                                           *)
(* ---------------------------------------------------------------------- *)
\* C30: usage_records never holds two rows with the same tenant, account,
\* metric and non-null source id; a call whose tenant, account, metric and
\* non-null source id had a committed row when it arrived returns that row
\* with 201 and leaves the table as it is; a call without a source id
\* returns 201 with a new row of its own, which is added to the table.
C30_UsageDedupedBySourceId ==
    [][ /\ \A x \in usage', y \in usage' :
             (x.source_id # SqlNull /\ DedupeKey(x) = DedupeKey(y)) => x = y
        /\ \A c \in Call :
             LET Returns(x) == upc[x] # "done" /\ upc'[x] = "done"
                 call == ucall'[c]
                 own == UsageRecord(c, call.tenant, call.body)
             IN /\ (/\ Returns(c) /\ call.body.sourceId # SqlNull
                     /\ call.prior # {})
                    => /\ \E row \in call.prior : uresp'[c] = Created(row)
                       /\ usage' = usage
                /\ (Returns(c) /\ call.body.sourceId = SqlNull)
                    => /\ uresp'[c] = Created(own)
                       /\ own \notin usage
                       /\ usage' = usage \cup {own}
      ]_vars

(* ---------------------------------------------------------------------- *)
(* Properties of the invoice mirror                                        *)
(* ---------------------------------------------------------------------- *)
\* C31: the invoices table never holds two rows with the same provider
\* invoice id; when the handlers commit an invoice.payment_succeeded /
\* invoice.payment_failed event, the table holds one row for the payload's
\* invoice id, with the payload's status and exactly the payload's lines;
\* if the invoice was mirrored before, it is the same row (same uuid,
\* same tenant) and no row is added.
C31_OneInvoiceRowPerProviderId ==
    [][ /\ \A x \in invoices', y \in invoices' :
             x.stripe_invoice_id = y.stripe_invoice_id => x = y
        /\ \A d \in Dlv :
             (/\ HandlingEnds(d) /\ Acknowledged(d)' /\ wtx[d] \in events'
              /\ StartsWithInvoice(dlv[d].payload.type))
             => LET inv == dlv[d].payload
                    before == {x \in invoices : x.stripe_invoice_id = inv.objId.inv}
                    after == {x \in invoices' : x.stripe_invoice_id = inv.objId.inv}
                IN /\ Cardinality(after) = 1
                   /\ \A x \in after : x.lines = inv.lines /\ x.status = inv.status
                   /\ before # {} =>
                        /\ Cardinality(invoices') = Cardinality(invoices)
                        /\ \A x \in after, y \in before :
                              x.rowid = y.rowid /\ x.project_id = y.project_id
      ]_vars

\* The invoice was mirrored by a payment_failed event and then by a
\* payment_succeeded event with another id: one row, inserted by the first
\* event, now paid and carrying the two lines of the second payload.
C31_Witness ==
    \E a \in Dlv, d \in Dlv :
        /\ WDone(a) /\ WDone(d) /\ Recorded(a) /\ Recorded(d)
        /\ a \in dlv[d].after
        /\ dlv[a].payload = InvoicePaymentFailed("T1", [id |-> P0], NoValue)
        /\ dlv[d].payload.type = "invoice.payment_succeeded"
        /\ Cardinality(invoices) = 1
        /\ \A x \in invoices : /\ x.rowid = dlv[a].payload.id
                                /\ x.status = "paid"
                                /\ x.lines = <<"li_2", "li_3">>

(* ---------------------------------------------------------------------- *)
(* Properties of the idempotency record                                    *)
(* ---------------------------------------------------------------------- *)
\* C32: once a create_subscription request has issued a provider call
\* (ensure_customer is the first, at the end of the engine's validation),
\* its in_progress record exists for every other request: the lookup of
\* another create_subscription request with the same tenant and key that
\* runs from then on finds a record.
C32_RecordVisibleBeforeProviderCall ==
    [][ \A r \in Req : \A o \in Req \ {r} :
          (/\ pc[o] = "app" /\ pc'[o] # "app" /\ req[o].op = "create"
           /\ req[o].key # NoHeader
           /\ req[r].op = "create" /\ KeyOf(r) = KeyOf(o)
           /\ pc[r] \in {"e_persist", "e_call", "e_update", "h_finish"})
          => /\ idem[KeyOf(o)] # NoRow
             /\ pc'[o] # "h_insert"
      ]_vars

C34_TenantInferenceCascade ==
    [][ \A d \in Dlv :
          (/\ Receives(d)
           /\ dlv'[d].payload \in WellFormedEvents
           /\ backend = "stripe" => dlv'[d].sig = "valid")
          => LET e == dlv'[d].payload
                 t == dlv'[d].tenant
                 s == SubscriptionOf(e, prov)
                 viaSub == IF s # NoSub THEN s.project_id ELSE NoValue
                 cust == IF StartsWithInvoice(e.type) THEN e.customer
                         ELSE IF s # NoSub THEN s.customer
                         ELSE NoValue
                 firstMatch == IF e.project # NoValue THEN e.project
                               ELSE IF viaSub # NoValue THEN viaSub
                               ELSE CustomerProject(cust)
                 afterFailure == IF e.project # NoValue THEN {}
                                 ELSE IF StartsWithInvoice(e.type)
                                 THEN {CustomerProject(e.customer), NoValue}
                                 ELSE {NoValue}
             IN /\ e.project # NoValue => t = e.project /\ prov' = prov
                /\ backend = "fake" => t = firstMatch
                /\ t \in {firstMatch} \cup afterFailure
                /\ t = NoValue <=> wpc'[d] = "done"
      ]_vars

\* An invoice event without metadata.project_id, whose subscription carries
\* tenant T1 and whose customer carries tenant T2, was received with the
\* fake provider and attributed to T1, the subscription's tenant.
C34_Witness ==
    \E d \in Dlv :
        /\ backend = "fake"
        /\ dlv[d].payload = InvoicePaymentFailed(NoValue, [id |-> P0], "cus_2")
        /\ prov[P0].project_id = "T1"
        /\ CustomerProject(dlv[d].payload.customer) = "T2"
        /\ wpc[d] # "idle"
        /\ dlv[d].tenant = "T1"

(* ---------------------------------------------------------------------- *)
(* Properties of IdempotencyMiddleware                                     *)
(* ---------------------------------------------------------------------- *)
\* C35: a POST on a non-exempt path that carries X-Project-Id and
\* Idempotency-Key and finds a row for that pair in idempotency_keys is
\* answered by the middleware with the row's status, headers and body
\* columns (NULL headers as {}, a NULL body as the empty body); the
\* downstream application is not called for it, so no gateway call is made
\* and no row of any table is written or changed.
C35_MiddlewareReplaysStoredResponse ==
    [][ \A r \in Req :
          (/\ pc[r] = "idle" /\ pc'[r] # "idle"
           /\ req'[r].project # NoHeader /\ req'[r].key # NoHeader
           /\ idem[<<req'[r].project, req'[r].key>>] # NoRow)
          => LET row == idem[<<req'[r].project, req'[r].key>>] IN
             /\ pc'[r] = "done"
             /\ resp'[r].kind = "http"
             /\ resp'[r].status = row.status
             /\ resp'[r].headers =
                    (IF row.headers = SqlNull THEN EmptyHeaders ELSE row.headers)
             /\ IF row.body = SqlNull THEN resp'[r].body = EmptyBody
                 ELSE resp'[r].body.json = row.body.stored
             /\ ~hist'[r].engine
             /\ UNCHANGED <<idem, subs, prov, createCalls, mutateCalls, tx>>
      ]_vars

\* A request was answered from a row the middleware had stored for an
\* earlier response: it carries that row's status, headers and body, the
\* row is as it was, and the request never reached the engine.
C35_Witness ==
    \E r \in Req :
        /\ pc[r] = "done"
        /\ HasGateHeaders(r)
        /\ prior[r] # NoRow /\ prior[r].headers # SqlNull
        /\ prior[r].body # SqlNull
        /\ resp[r].status = prior[r].status
        /\ resp[r].headers = prior[r].headers
        /\ resp[r].body.json = prior[r].body.stored
        /\ idem[KeyOf(r)] = prior[r]
        /\ ~hist[r].engine

\* C36: the middleware writes a row only for a downstream response with a
\* status below 500 and only under a (project, key) that has no row, the
\* row being that response; a row that is there is never changed by it.
\* And when every earlier request with a (project, key) was answered by the
\* downstream application with a status of 500 or more, the next request
\* with that pair is passed to the downstream application again.
C36_MiddlewareStoresFirstSuccess ==
    [][ /\ \A r \in Req :
             (pc[r] = "mw_store" /\ pc'[r] # "mw_store")
             => /\ idem[KeyOf(r)] # NoRow => idem' = idem
                /\ idem' # idem
                     => /\ resp[r].status.code < 500
                        /\ idem' = [idem EXCEPT ![KeyOf(r)] = idem'[KeyOf(r)]]
                        /\ idem'[KeyOf(r)].status = resp[r].status
                        /\ idem'[KeyOf(r)].headers = resp[r].headers
                        /\ idem'[KeyOf(r)].body.stored = resp[r].body.json
        /\ \A r \in Req :
             (/\ pc[r] = "idle" /\ pc'[r] # "idle"
              /\ req'[r].project # NoHeader /\ req'[r].key # NoHeader
              /\ \E o \in Req \ {r} : pc[o] # "idle" /\ KeyOf(o) = KeyOf(r)'
              /\ \A o \in Req \ {r} :
                    (pc[o] # "idle" /\ KeyOf(o) = KeyOf(r)')
                    => /\ pc[o] = "done" /\ prior[o] = NoRow
                       /\ resp[o].kind = "http"
                       /\ resp[o].status.code >= 500)
             => pc'[r] = "app"
      ]_vars

(* ---------------------------------------------------------------------- *)
(* Properties of events that change nothing                                *)
(* ---------------------------------------------------------------------- *)
\* C37: when the handling of a validated event ends and the event is of a
\* type without a handler, or a customer.subscription.updated / deleted
\* event whose provider subscription id no local row carries, or a
\* checkout.session.completed event whose subscription_local_id names no
\* local row, then no PaymentEvent row is committed and no Subscription or
\* Invoice row changes; and a later delivery of an event all of whose
\* earlier deliveries were acknowledged without a mutation and without
\* leaving a row is processed, not answered deduped=true.
C37_UnmirroredEventLeavesNoRecord ==
    [][ /\ \A d \in Dlv :
             LET e == dlv[d].payload
                 noHandler == /\ e.type # "checkout.session.completed"
                              /\ ~StartsWithInvoice(e.type)
                              /\ ~StartsWithCustomerSubscription(e.type)
                 noRowForSubscription ==
                     /\ StartsWithCustomerSubscription(e.type)
                     /\ \A s \in SubIds :
                           subs[s] # NoSub => subs[s].stripe_subscription_id # e.objId
                 noRowForCheckout ==
                     /\ e.type = "checkout.session.completed"
                     /\ IsUuid(e.localId)
                     /\ e.localId.str \in SubIds => subs[e.localId.str] = NoSub
             IN (/\ HandlingEnds(d)
                 /\ noHandler \/ noRowForSubscription \/ noRowForCheckout)
                => /\ UNCHANGED <<events, subs, invoices>>
                   /\ wresp'[d] \in {Processed(e.type), Aborted}
        /\ \A d \in Dlv :
             (/\ wpc[d] = "w_record" /\ wpc'[d] # "w_record"
              /\ \E o \in dlv[d].after : dlv[o].payload = dlv[d].payload
              /\ \A o \in Dlv \ {d} :
                    (wpc[o] # "idle" /\ dlv[o].payload = dlv[d].payload)
                    => /\ WDone(o) /\ whist[o].validated
                       /\ wresp[o] = Processed(dlv[o].payload.type)
                       /\ ~whist[o].mutated /\ ~Recorded(o))
             => /\ wpc'[d] = "w_handle"
                /\ wresp'[d] # Deduped
      ]_vars

\* A customer.subscription.updated event for a provider subscription no
\* local row is bound to was acknowledged without a commit; it was
\* delivered again afterwards and processed again, and payment_events is
\* still empty.
C37_Witness ==
    \E a \in Dlv : \E b \in Dlv \ {a} :
        /\ WDone(a) /\ WDone(b) /\ a \in dlv[b].after
        /\ dlv[a].payload = SubscriptionUpdated("T1", PX, "active")
        /\ dlv[b].payload = dlv[a].payload
        /\ whist[a].validated /\ whist[b].validated
        /\ wresp[a] = Processed(dlv[a].payload.type)
        /\ wresp[b] = Processed(dlv[b].payload.type)
        /\ ~Recorded(a) /\ ~Recorded(b) /\ events = {}

(* ---------------------------------------------------------------------- *)
(* Properties of the tenant partition of the mirror                        *)
(* ---------------------------------------------------------------------- *)
\* C38: the handling of a webhook event whose tenant (metadata.project_id
\* or the inferred one) is T changes only Subscription rows whose
\* project_id is T, whichever lookup found the row.
C38_WebhookStaysInTenant ==
    [][ \A d \in Dlv :
          HandlingEnds(d)
          => \A s \in SubIds :
                (subs[s] # NoSub /\ subs'[s] # subs[s])
                => subs[s].project_id = dlv[d].tenant
      ]_vars

(* ---------------------------------------------------------------------- *)
(* Properties of the pinned config version                                 *)
(* ---------------------------------------------------------------------- *)
\* C39: the config_version_id that create_subscription writes to the new
\* Subscription row is the id of the config version it loaded to validate
\* the command and look the plan up in, also when the tenant publishes a
\* new version while the command runs.
C39_PinnedVersionIsValidatedVersion ==
    [][ \A r \in Req :
          (pc[r] = "e_persist" /\ pc'[r] # "e_persist" /\ subs'[r] # NoSub)
          => subs'[r].config_version_id = cfg_json[r]
      ]_vars

====
